---------------------------- MODULE Spec2Model ----------------------------
(***************************************************************************)
(* A model of the terminal text editor in src/editor.c: files made of      *)
(* lines, panes (Window) with a cursor, offsets, a mark, a minibar and the *)
(* find state, the tiling region tree, the clipboard, and the key          *)
(* dispatcher of update().  Bytes and keycodes are the integers the source *)
(* uses (ASCII codes, and the values of the KeyCode enum).                 *)
(*                                                                         *)
(* Heap objects are addressed by small positive integers, 0 is the null    *)
(* pointer.  A File* is the index of the file in `files` (files are never  *)
(* freed).  Window and Region objects live in `win` and `reg`; the domain  *)
(* of these functions is the set of objects that are allocated.            *)
(*                                                                         *)
(* Not modelled: the bytes written to the terminal (framebuffer, redraw    *)
(* flags, minibar_offset, error_message text), the colour values of a line *)
(* (only the length of Line.colors is kept) and the unfinished undo        *)
(* records.  Minibar modes open and new are not dispatched by the          *)
(* specifications below.                                                   *)
(***************************************************************************)
EXTENDS Integers, Sequences, FiniteSets, TLC

(***************************************************************************)
(* Program constants (enums of src/editor.c).                              *)
(***************************************************************************)
WindowMinimumWidth == 40
WindowMinimumHeight == 10
MinibarCount == 1
MaxPathSize == 64
EditorLineNumberMargin == 2
EditorSpacesPerTab == 2
EditorCursorMarginTop == 6
EditorCursorMarginBottom == 6
EditorCursorMarginLeft == 6
EditorCursorMarginRight == 6

ColorThemeDefault == 0
ColorThemeLight == 1
ColorThemeJonBlow == 2
ColorThemeCount == 3

KeyCodeTab == 9
KeyCodeEnter == 10
KeyCodeEscape == 27
KeyCodeDelete == 127
KeyCodeCtrlDelete == 8
KeyCodeCtrlC == 3
KeyCodeCtrlG == 7
KeyCodeCtrlN == 14
KeyCodeCtrlS == 19
KeyCodeCtrlX == 24
KeyCodeCtrlV == 22
KeyCodeCtrlR == 18
KeyCodeCtrlB == 2
KeyCodeCtrlF == 6
KeyCodePrintableStart == 32
KeyCodePrintableEnd == 126
KeyCodeNone == 257
KeyCodeUp == 258
KeyCodeDown == 259
KeyCodeLeft == 260
KeyCodeRight == 261
KeyCodeEnd == 262
KeyCodeHome == 263
KeyCodeShiftUp == 264
KeyCodeShiftDown == 265
KeyCodeShiftLeft == 266
KeyCodeShiftRight == 267
KeyCodeShiftEnd == 268
KeyCodeShiftHome == 269
KeyCodeCtrlUp == 270
KeyCodeCtrlDown == 271
KeyCodeCtrlLeft == 272
KeyCodeCtrlRight == 273

UserKeyFocusNext == KeyCodeShiftRight
UserKeyFocusPrevious == KeyCodeShiftLeft
UserKeyPageUp == KeyCodeShiftUp
UserKeyPageDown == KeyCodeShiftDown
UserKeyOpen == KeyCodeCtrlG
UserKeyNew == KeyCodeCtrlN
UserKeySave == KeyCodeCtrlS
UserKeyCommand == KeyCodeCtrlR
UserKeyMark == KeyCodeCtrlB
UserKeyCopy == KeyCodeCtrlC
UserKeyPaste == KeyCodeCtrlV
UserKeyCut == KeyCodeCtrlX

MinibarModeOpen == 0
MinibarModeNew == 1
MinibarModeCommand == 2
MinibarModeFind == 3

(***************************************************************************)
(* Bytes used by the specifications.                                       *)
(***************************************************************************)
CharNewline == 10
CharReturn == 13
CharSpace == 32
CharMinus == 45
CharBar == 124
CharOpenBrace == 123
CharCloseBrace == 125
CharUnderscore == 95

\* "split", "close" and ".c" as byte sequences.
StrSplit == <<115, 112, 108, 105, 116>>
StrClose == <<99, 108, 111, 115, 101>>
StrTheme == <<116, 104, 101, 109, 101>>
StrDefault == <<100, 101, 102, 97, 117, 108, 116>>
StrBlow == <<98, 108, 111, 119>>
StrExtC == <<46, 99>>

(***************************************************************************)
(* The state.                                                              *)
(***************************************************************************)
VARIABLES
  files,            \* FileArray files: sequence of File records
  windows,          \* WindowArray windows: sequence of Window ids
  win,              \* the allocated Window objects, by id
  reg,              \* the allocated Region objects, by id (1 = master_region)
  focused_window,   \* Window* focused_window
  clipboard,        \* String clipboard
  current_theme,    \* int current_theme
  crashed,          \* the process performed an undefined operation and stopped
  disk              \* the file system: the bytes of each file, by path

vars ==
  <<files, windows, win, reg, focused_window, clipboard, current_theme, crashed, disk>>

master_region == 1

(***************************************************************************)
(* min, max and limit macros on integers.                                  *)
(***************************************************************************)
min(x, y) == IF x < y THEN x ELSE y

max(x, y) == IF x < y THEN y ELSE x

limit(x, lower, upper) == max(min(x, upper), lower)

(***************************************************************************)
(* The growable array (src/array.h) on sequences; indices are 0-based as   *)
(* in the source.                                                          *)
(***************************************************************************)
array_insert_multiple(array, items, index) ==
  SubSeq(array, 1, index) \o items \o SubSeq(array, index + 1, Len(array))

array_insert(array, item, index) == array_insert_multiple(array, <<item>>, index)

array_append(array, item) == array_insert(array, item, Len(array))

array_append_multiple(array, items) == array_insert_multiple(array, items, Len(array))

array_remove(array, index) ==
  SubSeq(array, 1, index) \o SubSeq(array, index + 2, Len(array))

\* truncate, remove_multiple and allocate_insert_multiple are called by
\* editor.c but are not part of src/array.h; they follow section 4.1.
array_truncate(array, count) == SubSeq(array, 1, count)

array_remove_multiple(array, index, count) ==
  SubSeq(array, 1, index) \o SubSeq(array, index + count + 1, Len(array))

(***************************************************************************)
(* IEEE-754 single precision, as far as Region.split needs it.  A float is *)
(* [m, e] with value m * 2^(-e), where m = 0 or 2^23 <= |m| < 2^24;        *)
(* F32Inf stands for an infinity or a NaN.  Results are rounded to nearest,*)
(* ties to even.  All intermediate integers stay below 2^31 as long as the *)
(* integer operands are below 128 in magnitude.                            *)
(***************************************************************************)
Pow2(n) == 2 ^ n

Abs(x) == IF x < 0 THEN -x ELSE x

Sign(x) == IF x < 0 THEN -1 ELSE 1

RECURSIVE BitLen(_)
BitLen(n) == IF n = 0 THEN 0 ELSE 1 + BitLen(n \div 2)

\* n / 2^s rounded to the nearest integer, ties to even (n >= 0, s >= 0).
RoundShift(n, s) ==
  IF s = 0 THEN n
  ELSE IF s > 30 THEN 0
  ELSE LET q == n \div Pow2(s)
           r == n % Pow2(s)
           half == Pow2(s - 1)
       IN IF r > half \/ (r = half /\ q % 2 = 1) THEN q + 1 ELSE q

F32Zero == [m |-> 0, e |-> 0]

F32Inf == [m |-> 1, e |-> -128]

F32IsInf(a) == a.e = -128

\* The float nearest to sign * n * 2^(-e), for an integer 0 <= n < 2^31.
F32Norm(sign, n, e) ==
  IF n = 0 THEN F32Zero
  ELSE LET bits == BitLen(n)
       IN IF bits > 24
          THEN LET s == bits - 24
                   q == RoundShift(n, s)
               IN IF q = Pow2(24)
                  THEN [m |-> sign * Pow2(23), e |-> e - s - 1]
                  ELSE [m |-> sign * q, e |-> e - s]
          ELSE [m |-> sign * n * Pow2(24 - bits), e |-> e + (24 - bits)]

F32FromInt(k) == F32Norm(Sign(k), Abs(k), 0)

RECURSIVE F32DivExp(_, _, _)
F32DivExp(n, d, e) == IF n * Pow2(e) >= d * Pow2(23) THEN e ELSE F32DivExp(n, d, e + 1)

\* (float)n / d for integers n and d.
F32Div(n, d) ==
  IF d = 0 THEN F32Inf
  ELSE IF n = 0 THEN F32Zero
  ELSE LET sign == Sign(n) * Sign(d)
           an == Abs(n)
           ad == Abs(d)
           e == F32DivExp(an, ad, 0)
           q == (an * Pow2(e)) \div ad
           r == (an * Pow2(e)) % ad
           up == 2 * r > ad \/ (2 * r = ad /\ q % 2 = 1)
           qq == IF up THEN q + 1 ELSE q
       IN IF qq = Pow2(24)
          THEN [m |-> sign * Pow2(23), e |-> e - 1]
          ELSE [m |-> sign * qq, e |-> e]

\* a + b.  The operand of smaller magnitude is aligned with three extra bits,
\* the last of them sticky.
F32Add(a, b) ==
  IF F32IsInf(a) \/ F32IsInf(b) THEN F32Inf
  ELSE IF a.m = 0 THEN b
  ELSE IF b.m = 0 THEN a
  ELSE LET big == IF a.e <= b.e THEN a ELSE b
           small == IF a.e <= b.e THEN b ELSE a
           g == small.e - big.e
           nb == Abs(big.m) * 8
           ns0 == Abs(small.m) * 8
           ns == IF g > 30 THEN 1
                 ELSE LET q == ns0 \div Pow2(g)
                      IN IF ns0 % Pow2(g) # 0 /\ q % 2 = 0 THEN q + 1 ELSE q
           sum == Sign(big.m) * nb + Sign(small.m) * ns
       IN F32Norm(Sign(sum), Abs(sum), big.e + 3)

\* (float)k * a.
F32MulInt(k, a) ==
  IF F32IsInf(a) THEN F32Inf
  ELSE F32Norm(Sign(k) * Sign(a.m), Abs(k) * Abs(a.m), a.e)

\* (int)a, truncating toward zero (a finite).
F32Trunc(a) ==
  IF a.e > 30 THEN 0
  ELSE IF a.e >= 0 THEN Sign(a.m) * (Abs(a.m) \div Pow2(a.e))
  ELSE a.m * Pow2(-a.e)

F32Half == [m |-> Pow2(23), e |-> 24]

(***************************************************************************)
(* Objects.  calloc() gives an object whose fields are all zero.           *)
(***************************************************************************)
NewLine == [chars |-> <<>>, colors_count |-> 0]

NewRegion ==
  [x |-> 0, y |-> 0, width |-> 0, height |-> 0, split |-> F32Zero,
   stacked |-> FALSE, parent |-> 0, childs |-> <<0, 0>>, window |-> 0]

NewWindow ==
  [file |-> 0, region |-> 0, file_states |-> <<>>,
   offset_x |-> 0, offset_y |-> 0,
   cursor_x |-> 0, cursor_y |-> 0, cursor_x_ideal |-> 0,
   mark_valid |-> FALSE, mark_x |-> 0, mark_y |-> 0,
   minibar_mode |-> 0, minibar_cursor |-> 0, minibar_active |-> FALSE,
   minibar_data |-> <<>>,
   error_present |-> FALSE,
   matches |-> <<>>, match_index |-> 0, match_length |-> 0,
   saved_cursor_x |-> 0, saved_cursor_y |-> 0,
   previous_keycode |-> 0]

\* The address of a fresh object: the smallest one not in use.
NewId(used) ==
  CHOOSE i \in 1..(Cardinality(used) + 1) :
    i \notin used /\ \A j \in 1..(i - 1) : j \in used

\* The whole program state as one record, threaded through the handlers.
State ==
  [files |-> files, windows |-> windows, win |-> win, reg |-> reg,
   focused_window |-> focused_window, clipboard |-> clipboard,
   current_theme |-> current_theme, crashed |-> crashed, disk |-> disk]

\* The value handed to Op once it is computed: a statement's result that the
\* statements after it read.
Then(value, Op(_)) == CHOOSE result \in { Op(x) : x \in {value} } : TRUE

\* An operation whose behaviour is undefined in C (an access outside a
\* buffer, the conversion of an infinite float to int): the process stops.
Crash(S) == [S EXCEPT !.crashed = TRUE]

(***************************************************************************)
(* Windows list.                                                           *)
(***************************************************************************)
allocate_window(S) ==
  LET window == NewId(DOMAIN S.win)
  IN [S EXCEPT !.win = (window :> NewWindow) @@ S.win,
               !.windows = array_append(S.windows, window)]

free_window(S, window) ==
  LET hits == { i \in 1..Len(S.windows) : S.windows[i] = window }
      first == CHOOSE i \in hits : \A j \in hits : i <= j
  IN [S EXCEPT !.windows = IF hits = {} THEN @ ELSE array_remove(@, first - 1),
               !.win = [w \in (DOMAIN S.win) \ {window} |-> S.win[w]]]

(***************************************************************************)
(* Region tree.                                                            *)
(***************************************************************************)
\* The limits that resize_child_regions passes to limit() leave a choice:
\* lower <= upper.  Otherwise limit() returns the lower limit for every value.
SplitRoom(region) ==
  IF region.stacked
  THEN WindowMinimumHeight <= region.height - WindowMinimumHeight
  ELSE WindowMinimumWidth <= region.width - WindowMinimumWidth - 1

\* A split that is infinite or not a number (set by a division by a size of
\* 0) makes the conversion to int undefined: the value is the build's choice.
\* When the limits leave no choice the result is the lower limit whatever
\* the value; when they do, the outcome is not followed further (crashed).
RECURSIVE resize_child_regions(_, _)
resize_child_regions(S, r) ==
  LET region == S.reg[r]
      c0 == region.childs[1]
      c1 == region.childs[2]
  IN IF S.crashed THEN S
     ELSE IF region.window # 0
     THEN [S EXCEPT !.win[region.window].region = r]
     ELSE IF F32IsInf(region.split) /\ SplitRoom(region) THEN Crash(S)
     ELSE IF region.stacked
     THEN LET height == IF F32IsInf(region.split) THEN WindowMinimumHeight
                        ELSE limit(F32Trunc(F32MulInt(region.height, region.split)),
                                   WindowMinimumHeight,
                                   region.height - WindowMinimumHeight)
              S1 == [S EXCEPT
                       !.reg[r].split = F32Div(height, region.height),
                       !.reg[c0] = [@ EXCEPT !.x = region.x, !.y = region.y,
                                             !.width = region.width,
                                             !.height = height],
                       !.reg[c1] = [@ EXCEPT !.x = region.x,
                                             !.y = region.y + height,
                                             !.width = region.width,
                                             !.height = region.height - height]]
          IN Then(S1, LAMBDA T1 :
               Then(resize_child_regions(T1, c0), LAMBDA T2 :
                 resize_child_regions(T2, c1)))
     ELSE LET width == IF F32IsInf(region.split) THEN WindowMinimumWidth
                       ELSE limit(F32Trunc(F32MulInt(region.width, region.split)),
                                  WindowMinimumWidth,
                                  region.width - WindowMinimumWidth - 1)
              S1 == [S EXCEPT
                       !.reg[r].split = F32Div(width, region.width),
                       !.reg[c0] = [@ EXCEPT !.x = region.x, !.y = region.y,
                                             !.height = region.height,
                                             !.width = width],
                       !.reg[c1] = [@ EXCEPT !.x = region.x + width,
                                             !.y = region.y,
                                             !.height = region.height,
                                             !.width = region.width - width - 1]]
          IN Then(S1, LAMBDA T1 :
               Then(resize_child_regions(T1, c0), LAMBDA T2 :
                 resize_child_regions(T2, c1)))

resize_window(S, window, amount) ==
  LET region == S.reg[S.win[window].region]
      parent == region.parent
      total == IF S.reg[parent].stacked THEN S.reg[parent].height
                                        ELSE S.reg[parent].width
      amount2 == IF ~region.stacked THEN amount * 2 ELSE amount
  IN IF parent = 0 THEN S
     ELSE resize_child_regions(
            [S EXCEPT !.reg[parent].split = F32Add(@, F32Div(amount2, total))],
            parent)

RECURSIVE recurse_left(_, _)
recurse_left(R, r) ==
  IF R[r].childs[1] # 0 THEN recurse_left(R, R[r].childs[1]) ELSE r

RECURSIVE recurse_right(_, _)
recurse_right(R, r) ==
  IF R[r].childs[2] # 0 THEN recurse_right(R, R[r].childs[2]) ELSE r

\* get_next_region without the descent into the right sibling.
RECURSIVE get_next_region_no_descent(_, _)
get_next_region_no_descent(R, r) ==
  IF R[r].parent = 0 THEN recurse_left(R, r)
  ELSE IF R[R[r].parent].childs[1] = r THEN R[R[r].parent].childs[2]
  ELSE get_next_region_no_descent(R, R[r].parent)

RECURSIVE get_next_region(_, _)
get_next_region(R, r) ==
  IF R[r].parent = 0 THEN recurse_left(R, r)
  ELSE IF R[R[r].parent].childs[1] = r THEN recurse_left(R, R[R[r].parent].childs[2])
  ELSE get_next_region(R, R[r].parent)

\* get_previous_region without the descent into the left sibling.
RECURSIVE get_previous_region_no_descent(_, _)
get_previous_region_no_descent(R, r) ==
  IF R[r].parent = 0 THEN recurse_right(R, r)
  ELSE IF R[R[r].parent].childs[2] = r THEN R[R[r].parent].childs[1]
  ELSE get_previous_region_no_descent(R, R[r].parent)

RECURSIVE get_previous_region(_, _)
get_previous_region(R, r) ==
  IF R[r].parent = 0 THEN recurse_right(R, r)
  ELSE IF R[R[r].parent].childs[2] = r THEN recurse_right(R, R[R[r].parent].childs[1])
  ELSE get_previous_region(R, R[r].parent)

focus_next(S) ==
  [S EXCEPT !.focused_window =
     S.reg[get_next_region(S.reg, S.win[S.focused_window].region)].window]

focus_previous(S) ==
  [S EXCEPT !.focused_window =
     S.reg[get_previous_region(S.reg, S.win[S.focused_window].region)].window]

\* remove_window that takes the second child of the parent for the sibling.
remove_window_takes_second(S, window) ==
  LET own == S.win[window].region
      parent == S.reg[own].parent
      region == S.reg[parent].childs[2]
      g0 == S.reg[region].childs[1]
      g1 == S.reg[region].childs[2]
  IN IF parent = 0 THEN S
     ELSE Then(focus_next(S), LAMBDA S1 :
          Then([S1 EXCEPT !.reg[parent].childs = <<g0, g1>>,
                          !.reg[parent].window = S.reg[region].window], LAMBDA S2 :
          Then(IF g0 # 0
               THEN [S2 EXCEPT !.reg[g0].parent = parent, !.reg[g1].parent = parent]
               ELSE S2, LAMBDA S3 :
          Then(resize_child_regions(S3, parent), LAMBDA S4 :
          free_window(
            [S4 EXCEPT !.reg = [q \in (DOMAIN S4.reg) \ {region, own} |-> S4.reg[q]]],
            window)))))

\* remove_window with the sibling's two children taken over in the other order.
remove_window_swaps_children(S, window) ==
  LET own == S.win[window].region
      parent == S.reg[own].parent
      region == IF S.reg[parent].childs[1] = own THEN S.reg[parent].childs[2]
                                                 ELSE S.reg[parent].childs[1]
      g0 == S.reg[region].childs[2]
      g1 == S.reg[region].childs[1]
  IN IF parent = 0 THEN S
     ELSE Then(focus_next(S), LAMBDA S1 :
          Then([S1 EXCEPT !.reg[parent].childs = <<g0, g1>>,
                          !.reg[parent].window = S.reg[region].window], LAMBDA S2 :
          Then(IF g0 # 0
               THEN [S2 EXCEPT !.reg[g0].parent = parent, !.reg[g1].parent = parent]
               ELSE S2, LAMBDA S3 :
          Then(resize_child_regions(S3, parent), LAMBDA S4 :
          free_window(
            [S4 EXCEPT !.reg = [q \in (DOMAIN S4.reg) \ {region, own} |-> S4.reg[q]]],
            window)))))

\* remove_window that leaves the parent pointers of the adopted children as
\* they were.
remove_window_keeps_parents(S, window) ==
  LET own == S.win[window].region
      parent == S.reg[own].parent
      region == IF S.reg[parent].childs[1] = own THEN S.reg[parent].childs[2]
                                                 ELSE S.reg[parent].childs[1]
      g0 == S.reg[region].childs[1]
      g1 == S.reg[region].childs[2]
  IN IF parent = 0 THEN S
     ELSE Then(focus_next(S), LAMBDA S1 :
          Then([S1 EXCEPT !.reg[parent].childs = <<g0, g1>>,
                          !.reg[parent].window = S.reg[region].window], LAMBDA S2 :
          Then(resize_child_regions(S2, parent), LAMBDA S4 :
          free_window(
            [S4 EXCEPT !.reg = [q \in (DOMAIN S4.reg) \ {region, own} |-> S4.reg[q]]],
            window))))

\* remove_window that leaves the focus on the pane it releases.
remove_window_keeps_focus(S, window) ==
  LET own == S.win[window].region
      parent == S.reg[own].parent
      region == IF S.reg[parent].childs[1] = own THEN S.reg[parent].childs[2]
                                                 ELSE S.reg[parent].childs[1]
      g0 == S.reg[region].childs[1]
      g1 == S.reg[region].childs[2]
  IN IF parent = 0 THEN S
     ELSE Then([S EXCEPT !.reg[parent].childs = <<g0, g1>>,
                         !.reg[parent].window = S.reg[region].window], LAMBDA S2 :
          Then(IF g0 # 0
               THEN [S2 EXCEPT !.reg[g0].parent = parent, !.reg[g1].parent = parent]
               ELSE S2, LAMBDA S3 :
          Then(resize_child_regions(S3, parent), LAMBDA S4 :
          free_window(
            [S4 EXCEPT !.reg = [q \in (DOMAIN S4.reg) \ {region, own} |-> S4.reg[q]]],
            window))))

\* After remove_window the Window object and two Region objects are freed.
remove_window(S, window) ==
  LET own == S.win[window].region
      parent == S.reg[own].parent
      region == IF S.reg[parent].childs[1] = own THEN S.reg[parent].childs[2]
                                                 ELSE S.reg[parent].childs[1]
      g0 == S.reg[region].childs[1]
      g1 == S.reg[region].childs[2]
  IN IF parent = 0 THEN S
     ELSE Then(focus_next(S), LAMBDA S1 :
          Then([S1 EXCEPT !.reg[parent].childs = <<g0, g1>>,
                          !.reg[parent].window = S.reg[region].window], LAMBDA S2 :
          Then(IF g0 # 0
               THEN [S2 EXCEPT !.reg[g0].parent = parent, !.reg[g1].parent = parent]
               ELSE S2, LAMBDA S3 :
          Then(resize_child_regions(S3, parent), LAMBDA S4 :
          free_window(
            [S4 EXCEPT !.reg = [q \in (DOMAIN S4.reg) \ {region, own} |-> S4.reg[q]]],
            window)))))

swap_windows(S, window) ==
  LET parent == S.reg[S.win[window].region].parent
  IN IF parent = 0 THEN S
     ELSE resize_child_regions(
            [S EXCEPT !.reg[parent].childs = <<@[2], @[1]>>], parent)

\* split_window with the old pane handed to the second child.
split_window_swaps_children(S, window, vertical) ==
  LET region == S.win[window].region
  IN Then(NewId(DOMAIN S.reg), LAMBDA c0 :
     Then(NewId((DOMAIN S.reg) \cup {c0}), LAMBDA c1 :
     Then(allocate_window(S), LAMBDA S1 :
     Then(S1.windows[Len(S1.windows)], LAMBDA fresh :
       resize_child_regions(
         [S1 EXCEPT
            !.reg = (c0 :> [NewRegion EXCEPT !.window = fresh, !.parent = region])
                    @@ (c1 :> [NewRegion EXCEPT !.window = window, !.parent = region])
                    @@ [S1.reg EXCEPT ![region].window = 0,
                                      ![region].childs = <<c0, c1>>,
                                      ![region].split = F32Half,
                                      ![region].stacked = vertical]],
         region)))))

split_window(S, window, vertical) ==
  LET region == S.win[window].region
  IN Then(NewId(DOMAIN S.reg), LAMBDA c0 :
     Then(NewId((DOMAIN S.reg) \cup {c0}), LAMBDA c1 :
     Then(allocate_window(S), LAMBDA S1 :
     Then(S1.windows[Len(S1.windows)], LAMBDA fresh :
       resize_child_regions(
         [S1 EXCEPT
            !.reg = (c0 :> [NewRegion EXCEPT !.window = window, !.parent = region])
                    @@ (c1 :> [NewRegion EXCEPT !.window = fresh, !.parent = region])
                    @@ [S1.reg EXCEPT ![region].window = 0,
                                      ![region].childs = <<c0, c1>>,
                                      ![region].split = F32Half,
                                      ![region].stacked = vertical]],
         region)))))

\* SIGWINCH: the terminal reports a new size.
resize_master_region(S, width, height) ==
  resize_child_regions(
    [S EXCEPT !.reg[master_region].width = width,
              !.reg[master_region].height = height],
    master_region)

(***************************************************************************)
(* Files and lines.  A File is [path, lines, saved, highlight]; highlight  *)
(* is TRUE when allocate_file found a rule set for the path's extension.   *)
(***************************************************************************)
HasExtensionC(path) ==
  /\ Len(path) > Len(StrExtC)
  /\ SubSeq(path, Len(path) - Len(StrExtC) + 1, Len(path)) = StrExtC

allocate_file(path) ==
  [path |-> path, lines |-> <<>>, saved |-> TRUE, highlight |-> HasExtensionC(path)]

\* render_line returns before it sizes Line.colors when the file has no
\* highlight; with one, colors gets one entry per byte.
render_line(file, line) ==
  IF ~file.highlight THEN line
  ELSE [line EXCEPT !.colors_count = Len(line.chars)]

insert_lines(file, index, count) ==
  [file EXCEPT !.lines = array_insert_multiple(@, [i \in 1..count |-> NewLine], index)]

insert_line(file, index) == insert_lines(file, index, 1)

delete_lines(file, index, count) ==
  [file EXCEPT !.lines = array_remove_multiple(@, index, count)]

delete_line(file, index) == delete_lines(file, index, 1)

create_file(path) == insert_line(allocate_file(path), 0)

\* What save_file writes: the lines with "\r\n" between them.
RECURSIVE SavedBytes(_, _)
SavedBytes(lines, i) ==
  IF i > Len(lines) THEN <<>>
  ELSE (IF i > 1 THEN <<CharReturn, CharNewline>> ELSE <<>>) \o lines[i].chars \o SavedBytes(lines, i + 1)

\* save_file of file number f (1-based); open() fails for the empty path.
save_file(S, f) ==
  LET file == S.files[f]
  IN IF file.path = <<>> THEN [S |-> S, ok |-> FALSE]
     ELSE [S |-> [S EXCEPT !.disk = (file.path :> SavedBytes(file.lines, 1)) @@ @,
                           !.files[f].saved = TRUE],
           ok |-> TRUE]

\* Line y (0-based) of a file.
LineAt(file, y) == file.lines[y + 1]

SetLine(file, y, line) == [file EXCEPT !.lines[y + 1] = line]

\* The second half of open_file: the bytes read from disk become lines.
RECURSIVE open_file_loop(_, _, _, _, _)
open_file_loop(file, data, i, index, cr) ==
  LET size == Len(data)
      count == Len(file.lines)
      line == LineAt(file, count - 1)
  IN IF i >= size
     THEN IF index < size
          THEN LET f1 == insert_line(file, count)
                   tail == [NewLine EXCEPT
                              !.chars = SubSeq(data, index + 1, size - cr)]
               IN SetLine(f1, count, render_line(f1, tail))
          ELSE file
     ELSE IF data[i + 1] = CharNewline
     THEN LET full == [line EXCEPT
                         !.chars = array_append_multiple(@, SubSeq(data, index + 1, i - cr))]
              f1 == SetLine(file, count - 1, render_line(file, full))
          IN open_file_loop(insert_line(f1, count), data, i + 1, i + 1, 0)
     ELSE IF data[i + 1] = CharReturn
     THEN open_file_loop(file, data, i + 1, index, 1)
     ELSE open_file_loop(file, data, i + 1, index, cr)


\* The File that open_file builds from the bytes of a file on disk.
load_file(path, data) ==
  open_file_loop(insert_line(allocate_file(path), 0), data, 0, 0, 0)

\* The first loop of open_file: a '\r' is refused when a byte other than
\* '\n' and '\r' follows before the next '\n'.
RECURSIVE open_file_check(_, _, _)
open_file_check(data, i, cr) ==
  IF i >= Len(data) THEN TRUE
  ELSE IF data[i + 1] = CharNewline THEN open_file_check(data, i + 1, 0)
  ELSE IF data[i + 1] = CharReturn THEN open_file_check(data, i + 1, 1)
  ELSE IF cr = 1 THEN FALSE
  ELSE open_file_check(data, i + 1, cr)

\* strncmp(file path, path, path_size) = 0: path is a prefix of the file's
\* null-terminated path.
PathMatches(file, path) ==
  Len(path) <= Len(file.path) /\ SubSeq(file.path, 1, Len(path)) = path

\* The number (1-based) of the first open file that matches, or 0.
try_open_existing_file(S, path) ==
  LET hits == { i \in 1..Len(S.files) : PathMatches(S.files[i], path) }
  IN IF hits = {} THEN 0 ELSE CHOOSE i \in hits : \A j \in hits : i <= j

\* open_file: the state afterwards and the number of the file, 0 for none.
open_file(S, path) ==
  LET existing == try_open_existing_file(S, path)
  IN IF existing # 0 THEN [S |-> S, file |-> existing]
     ELSE IF Len(path) >= MaxPathSize THEN [S |-> Crash(S), file |-> 0]
     ELSE IF path \notin DOMAIN S.disk THEN [S |-> S, file |-> 0]
     ELSE IF ~open_file_check(S.disk[path], 0, 0) THEN [S |-> S, file |-> 0]
     ELSE [S |-> [S EXCEPT !.files = array_append(@, load_file(path, S.disk[path]))],
           file |-> Len(S.files) + 1]

Spaces(count) == [i \in 1..count |-> CharSpace]

(***************************************************************************)
(* Character classes.                                                      *)
(***************************************************************************)
is_letter(c) == (97 <= c /\ c <= 122) \/ (65 <= c /\ c <= 90)

is_number(c) == 48 <= c /\ c <= 57

is_indentifier_literal(c) == is_letter(c) \/ is_number(c) \/ c = CharUnderscore

RECURSIVE count_digits(_)
count_digits(number) ==
  IF Abs(number) < 10 THEN 1 ELSE 1 + count_digits(Abs(number) \div 10)

(***************************************************************************)
(* Pane geometry, offsets and the cursor limit.  These work on a Window    *)
(* record W, its File record and its Region record.                        *)
(***************************************************************************)
get_left_padding(W, S) ==
  LET vertical_window_separator_width == IF S.reg[W.region].x # 0 THEN 2 ELSE 0
      line_number_width ==
        IF W.file # 0 THEN count_digits(Len(S.files[W.file].lines) - 1) ELSE 0
  IN vertical_window_separator_width + line_number_width + EditorLineNumberMargin

get_active_width(W, S) == S.reg[W.region].width - get_left_padding(W, S)

get_active_height(W, S) == S.reg[W.region].height - MinibarCount

get_updated_offset(cursor, offset, width, left_margin, right_margin) ==
  LET adjust1 == offset + left_margin - cursor
      offset1 == IF adjust1 > 0 THEN max(offset - adjust1, 0) ELSE offset
      adjust2 == cursor - (offset1 + width - right_margin)
  IN IF adjust2 > 0 THEN offset1 + adjust2 ELSE offset1

update_window_offsets(W, S) ==
  [W EXCEPT
     !.offset_x = get_updated_offset(W.cursor_x, W.offset_x, get_active_width(W, S),
                                     EditorCursorMarginLeft, EditorCursorMarginRight),
     !.offset_y = get_updated_offset(W.cursor_y, W.offset_y, get_active_height(W, S),
                                     EditorCursorMarginTop, EditorCursorMarginBottom)]

limit_window_cursor(W, S) ==
  LET file == S.files[W.file]
      y == min(max(W.cursor_y, 0), Len(file.lines) - 1)
      x == min(max(W.cursor_x, 0), Len(LineAt(file, y).chars))
  IN update_window_offsets([W EXCEPT !.cursor_x = x, !.cursor_y = y], S)

update_window_cursor_x(W, x) == [W EXCEPT !.cursor_x = x, !.cursor_x_ideal = x]

update_window_cursor_y(W, y) == [W EXCEPT !.cursor_y = y, !.cursor_x = W.cursor_x_ideal]

update_window_offset_y(W, S, offset) ==
  [W EXCEPT !.offset_y = limit(offset, 0, Len(S.files[W.file].lines))]

\* A position (x, y) that denotes a byte boundary of the file.
InFile(file, x, y) ==
  /\ 0 <= y /\ y < Len(file.lines)
  /\ 0 <= x /\ x <= Len(LineAt(file, y).chars)

CursorInFile(W, S) == InFile(S.files[W.file], W.cursor_x, W.cursor_y)

MarkInFile(W, S) == InFile(S.files[W.file], W.mark_x, W.mark_y)

\* Integer division of C, which truncates toward zero.
CDiv(a, b) == Sign(a) * Sign(b) * (Abs(a) \div Abs(b))

(***************************************************************************)
(* Editing.  Each operation takes the program state S and a Window id and  *)
(* gives the new state.                                                    *)
(***************************************************************************)
insert_character(S, window, c) ==
  LET W == S.win[window]
      file == S.files[W.file]
      line == LineAt(file, W.cursor_y)
      line1 == render_line(file, [line EXCEPT !.chars = array_insert(@, c, W.cursor_x)])
  IN [S EXCEPT !.win[window].cursor_x = W.cursor_x + 1,
               !.files[W.file] = [SetLine(file, W.cursor_y, line1) EXCEPT !.saved = FALSE]]

RECURSIVE get_leading_spaces_from(_, _)
get_leading_spaces_from(chars, i) ==
  IF i < Len(chars) /\ chars[i + 1] = CharSpace
  THEN get_leading_spaces_from(chars, i + 1) ELSE i

get_leading_spaces(line) == get_leading_spaces_from(line.chars, 0)

get_last_char(line) == IF Len(line.chars) # 0 THEN line.chars[Len(line.chars)] ELSE 0

\* insert_newline without the test of previous_keycode.
insert_newline_always_closes(S, window) ==
  LET W == S.win[window]
      file == S.files[W.file]
      line == LineAt(file, W.cursor_y)
      tail == SubSeq(line.chars, W.cursor_x + 1, Len(line.chars))
      head == render_line(file, [line EXCEPT !.chars = array_truncate(@, W.cursor_x)])
      file1 == SetLine(file, W.cursor_y, head)
      indent == get_leading_spaces(head)
      brace == get_last_char(head) = CharOpenBrace
      closing == brace
      file2 == IF closing
               THEN SetLine(insert_line(file1, W.cursor_y + 1), W.cursor_y + 1,
                            render_line(file1,
                              [NewLine EXCEPT !.chars =
                                 array_append(Spaces(indent), CharCloseBrace)]))
               ELSE file1
      indent2 == IF brace THEN indent + EditorSpacesPerTab ELSE indent
      file3 == SetLine(insert_line(file2, W.cursor_y + 1), W.cursor_y + 1,
                       render_line(file2,
                         [NewLine EXCEPT !.chars =
                            array_append_multiple(Spaces(indent2), tail)]))
  IN [S EXCEPT !.win[window].cursor_x = indent2,
               !.win[window].cursor_y = W.cursor_y + 1,
               !.files[W.file] = [file3 EXCEPT !.saved = FALSE]]

insert_newline(S, window) ==
  LET W == S.win[window]
      file == S.files[W.file]
      line == LineAt(file, W.cursor_y)
      tail == SubSeq(line.chars, W.cursor_x + 1, Len(line.chars))
      head == render_line(file, [line EXCEPT !.chars = array_truncate(@, W.cursor_x)])
      file1 == SetLine(file, W.cursor_y, head)
      indent == get_leading_spaces(head)
      brace == get_last_char(head) = CharOpenBrace
      closing == brace /\ W.previous_keycode = CharOpenBrace
      file2 == IF closing
               THEN SetLine(insert_line(file1, W.cursor_y + 1), W.cursor_y + 1,
                            render_line(file1,
                              [NewLine EXCEPT !.chars =
                                 array_append(Spaces(indent), CharCloseBrace)]))
               ELSE file1
      indent2 == IF brace THEN indent + EditorSpacesPerTab ELSE indent
      file3 == SetLine(insert_line(file2, W.cursor_y + 1), W.cursor_y + 1,
                       render_line(file2,
                         [NewLine EXCEPT !.chars =
                            array_append_multiple(Spaces(indent2), tail)]))
  IN [S EXCEPT !.win[window].cursor_x = indent2,
               !.win[window].cursor_y = W.cursor_y + 1,
               !.files[W.file] = [file3 EXCEPT !.saved = FALSE]]

delete_character(S, window) ==
  LET W == S.win[window]
      file == S.files[W.file]
      line == LineAt(file, W.cursor_y)
      prev_line == LineAt(file, W.cursor_y - 1)
  IN IF W.cursor_x # 0
     THEN [S EXCEPT
             !.win[window] = update_window_cursor_x(W, W.cursor_x - 1),
             !.files[W.file] =
               [SetLine(file, W.cursor_y,
                        render_line(file, [line EXCEPT !.chars =
                                             array_remove(@, W.cursor_x - 1)]))
                  EXCEPT !.saved = FALSE]]
     ELSE IF W.cursor_y # 0
     THEN LET W1 == update_window_cursor_y(
                      update_window_cursor_x(W, Len(prev_line.chars)), W.cursor_y - 1)
              merged == render_line(file, [prev_line EXCEPT !.chars =
                                             array_append_multiple(@, line.chars)])
          IN [S EXCEPT
                !.win[window] = W1,
                !.files[W.file] =
                  [delete_line(SetLine(file, W.cursor_y - 1, merged), W1.cursor_y + 1)
                     EXCEPT !.saved = FALSE]]
     ELSE [S EXCEPT !.files[W.file].saved = FALSE]

\* The three run counters of get_delete_count after the first `n` bytes.
RECURSIVE delete_counters(_, _)
delete_counters(data, n) ==
  IF n = 0 THEN [space_count |-> 0, other_count |-> 0, char_count |-> 0]
  ELSE LET p == delete_counters(data, n - 1)
           c == data[n]
       IN IF c = CharSpace
          THEN [space_count |-> p.space_count + 1,
                other_count |-> IF p.space_count = 2 THEN 0 ELSE p.other_count,
                char_count |-> IF p.space_count = 2 THEN 0 ELSE p.char_count]
          ELSE IF is_indentifier_literal(c)
          THEN [space_count |-> 0, other_count |-> 0,
                char_count |-> (IF p.space_count # 0 THEN 0 ELSE p.char_count) + 1]
          ELSE [space_count |-> 0, char_count |-> 0,
                other_count |-> (IF p.space_count # 0 THEN 0 ELSE p.other_count) + 1]

get_delete_count(data, cursor, ctrl) ==
  LET p == delete_counters(data, cursor)
      aligned_to_tab == p.space_count # 0 /\ (p.space_count % EditorSpacesPerTab) = 0
  IN IF cursor = 0 THEN 1
     ELSE IF ctrl THEN p.space_count + p.char_count + p.other_count
     ELSE IF aligned_to_tab THEN EditorSpacesPerTab
     ELSE 1

RECURSIVE delete_characters(_, _, _)
delete_characters(S, window, count) ==
  IF count = 0 THEN S ELSE delete_characters(delete_character(S, window), window, count - 1)

delete_character_or_word(S, window, ctrl) ==
  LET W == S.win[window]
      line == LineAt(S.files[W.file], W.cursor_y)
  IN delete_characters(S, window, get_delete_count(line.chars, W.cursor_x, ctrl))

\* <<start_x, start_y, end_x, end_y>>
get_block_marks(W) ==
  IF W.mark_y > W.cursor_y \/ (W.mark_y = W.cursor_y /\ W.mark_x > W.cursor_x)
  THEN <<W.cursor_x, W.cursor_y, W.mark_x, W.mark_y>>
  ELSE <<W.mark_x, W.mark_y, W.cursor_x, W.cursor_y>>

\* The index of the first '\n' of data at or after index (0-based), or its size.
RECURSIVE next_newline(_, _)
next_newline(data, index) ==
  IF index < Len(data) /\ data[index + 1] # CharNewline
  THEN next_newline(data, index + 1) ELSE index

RECURSIVE count_newlines(_)
count_newlines(data) ==
  IF data = <<>> THEN 0
  ELSE (IF Head(data) = CharNewline THEN 1 ELSE 0) + count_newlines(Tail(data))

\* The while loop of insert_block from `index` on, with the cursor on line y:
\* gives the file and the line the cursor ends on.
RECURSIVE insert_block_loop(_, _, _, _)
insert_block_loop(file, y, data, index) ==
  IF index >= Len(data) THEN [file |-> file, y |-> y]
  ELSE LET stop == next_newline(data, index)
           line == LineAt(file, y)
           file1 == SetLine(file, y,
                      render_line(file, [line EXCEPT !.chars =
                        array_append_multiple(@, SubSeq(data, index + 1, stop))]))
       IN IF stop >= Len(data) THEN [file |-> file1, y |-> y]
          ELSE insert_block_loop(file1, y + 1, data, stop + 1)

\* insert_block without its last step, the re-append of the text that followed
\* the cursor.
insert_block_drops_tail(S, window, data) ==
  LET W == S.win[window]
      file == S.files[W.file]
      line == LineAt(file, W.cursor_y)
      file1 == SetLine(file, W.cursor_y, [line EXCEPT !.chars = array_truncate(@, W.cursor_x)])
      file2 == insert_lines(file1, W.cursor_y + 1, count_newlines(data))
      r == insert_block_loop(file2, W.cursor_y, data, 0)
      W1 == update_window_cursor_x([W EXCEPT !.cursor_y = r.y],
                                   Len(LineAt(r.file, r.y).chars))
  IN [S EXCEPT !.win[window] = W1, !.files[W.file] = r.file]

insert_block(S, window, data) ==
  LET W == S.win[window]
      file == S.files[W.file]
      line == LineAt(file, W.cursor_y)
      buffer == SubSeq(line.chars, W.cursor_x + 1, Len(line.chars))
      file1 == SetLine(file, W.cursor_y, [line EXCEPT !.chars = array_truncate(@, W.cursor_x)])
      file2 == insert_lines(file1, W.cursor_y + 1, count_newlines(data))
      r == insert_block_loop(file2, W.cursor_y, data, 0)
      last == LineAt(r.file, r.y)
      W1 == update_window_cursor_x([W EXCEPT !.cursor_y = r.y], Len(last.chars))
      file3 == IF Len(buffer) # 0
               THEN SetLine(r.file, r.y,
                      render_line(r.file, [last EXCEPT !.chars =
                                             array_append_multiple(@, buffer)]))
               ELSE r.file
  IN [S EXCEPT !.win[window] = W1, !.files[W.file] = file3]

\* delete_block without the re-insertion of the text that preceded the block
\* on its first line.
delete_block_drops_head(S, window) ==
  LET W == S.win[window]
      file == S.files[W.file]
      b == get_block_marks(W)
      file1 == delete_lines(file, b[2], b[4] - b[2])
      line == LineAt(file1, b[2])
      line1 == [line EXCEPT !.chars = array_remove_multiple(@, 0, b[3])]
      W1 == update_window_cursor_y(update_window_cursor_x(W, b[1]), b[2])
  IN [S EXCEPT !.win[window] = W1, !.files[W.file] = SetLine(file1, b[2], line1)]

delete_block(S, window) ==
  LET W == S.win[window]
      file == S.files[W.file]
      b == get_block_marks(W)
      start_x == b[1]
      start_y == b[2]
      end_x == b[3]
      end_y == b[4]
      buffer == SubSeq(LineAt(file, start_y).chars, 1, start_x)
      file1 == delete_lines(file, start_y, end_y - start_y)
      line == LineAt(file1, start_y)
      line1 == [line EXCEPT !.chars =
                  array_insert_multiple(array_remove_multiple(@, 0, end_x), buffer, 0)]
      W1 == update_window_cursor_y(update_window_cursor_x(W, Len(buffer)), start_y)
  IN [S EXCEPT !.win[window] = W1, !.files[W.file] = SetLine(file1, start_y, line1)]

\* The bytes from (x, y) to (end_x, end_y), lines joined by '\n'.
RECURSIVE block_text(_, _, _, _, _)
block_text(file, x, y, end_x, end_y) ==
  IF y # end_y
  THEN SubSeq(LineAt(file, y).chars, x + 1, Len(LineAt(file, y).chars))
         \o <<CharNewline>> \o block_text(file, 0, y + 1, end_x, end_y)
  ELSE SubSeq(LineAt(file, y).chars, x + 1, end_x)

copy_block(S, window) ==
  LET W == S.win[window]
      file == S.files[W.file]
      b == get_block_marks(W)
  IN [S EXCEPT
        !.clipboard = block_text(file, b[1], b[2], b[3], b[4]),
        !.files[W.file].lines =
          [i \in 1..Len(file.lines) |->
             IF b[2] + 1 <= i /\ i <= b[4] + 1 THEN render_line(file, file.lines[i])
             ELSE file.lines[i]]]

cut(S, window) ==
  Then(copy_block(S, window), LAMBDA T : delete_block(T, window))

copy(S, window) == copy_block(S, window)

paste(S, window) == insert_block(S, window, S.clipboard)

(***************************************************************************)
(* Incremental find (Boyer-Moore tables and the scan of one line).         *)
(***************************************************************************)
\* find_char_lookup[c] after make_find_lookup(data, size).
RECURSIVE find_char_lookup_from(_, _, _)
find_char_lookup_from(data, c, i) ==
  IF i < 0 THEN Len(data)
  ELSE IF data[i + 1] = c THEN Len(data) - i - 1
  ELSE find_char_lookup_from(data, c, i - 1)

find_char_lookup(data, c) == find_char_lookup_from(data, c, Len(data) - 1)

\* The inner loop of make_find_lookup for one i: j runs from i - 1 down to 0.
RECURSIVE find_shift(_, _, _, _)
find_shift(data, i, j, shift) ==
  IF j < 0 THEN shift
  ELSE LET size == Len(data)
           equal == SubSeq(data, j + 1, j + size - i) = SubSeq(data, i + 1, size)
           take == equal /\ ((j # 0 /\ data[j + 1] # data[i]) \/ shift = 0)
       IN find_shift(data, i, j - 1, IF take THEN i - j ELSE shift)

\* find_index_lookup[i] after make_find_lookup(data, size), for 0 < i < size.
find_index_lookup(data, i) ==
  LET shift == find_shift(data, i, i - 1, 0)
  IN IF shift # 0 THEN shift ELSE 1

\* How many bytes match, comparing word right to left against data ending at
\* data_index.
RECURSIVE find_match_count(_, _, _, _)
find_match_count(word, data, word_index, data_index) ==
  IF word_index >= 0 /\ word[word_index + 1] = data[data_index + 1]
  THEN 1 + find_match_count(word, data, word_index - 1, data_index - 1)
  ELSE 0

\* The outer loop of find from data_index on: the columns stored in
\* find_indicies, in the order they are stored.
RECURSIVE find_from(_, _, _)
find_from(word, data, data_index) ==
  IF data_index >= Len(data) THEN <<>>
  ELSE LET word_length == Len(word)
           match_count == find_match_count(word, data, word_length - 1, data_index)
           stop == data_index - match_count
           skip == IF match_count # 0 THEN find_index_lookup(word, match_count)
                   ELSE find_char_lookup(word, data[stop + 1])
       IN IF match_count = word_length
          THEN <<stop + 1>> \o find_from(word, data, stop + word_length + 1)
          ELSE find_from(word, data, data_index + skip)

\* find with every column stored one too far to the right.
find_off_by_one(word, data) ==
  LET cols == find_from(word, data, Len(word) - 1)
  IN [i \in DOMAIN cols |-> cols[i] + 1]

find(word, data) == find_from(word, data, Len(word) - 1)

\* The matches of all lines from line i on, in the order they are appended.
RECURSIVE find_lines(_, _, _)
find_lines(word, file, i) ==
  IF i >= Len(file.lines) THEN <<>>
  ELSE LET cols == find(word, LineAt(file, i).chars)
       IN [j \in 1..Len(cols) |-> [x |-> cols[j], y |-> i]]
            \o find_lines(word, file, i + 1)

set_cursor_based_on_position(W, S, position) ==
  LET height == get_active_height(W, S)
      W1 == IF position.y >= W.offset_y + height - EditorCursorMarginBottom
            THEN [W EXCEPT !.offset_y = 999999] ELSE W
  IN [W1 EXCEPT !.cursor_y = position.y, !.cursor_x = position.x]

\* What the environment decides during one dispatch:
\*   pending - input_is_pending() answers true during the find scan;
\*   crash, garbage - the outcome of an undefined read: the process stops, or
\*   it goes on (and a read of a Match outside the list yields `garbage`).
NoEnv == [pending |-> FALSE, crash |-> FALSE, garbage |-> [x |-> 0, y |-> 0]]

\* Reads matches.items[index].
ReadMatch(W, index, env) ==
  IF 0 <= index /\ index < Len(W.matches) THEN W.matches[index + 1] ELSE env.garbage

MatchReadDefined(W, index) == 0 <= index /\ index < Len(W.matches)

\* find_in_file that keeps what it found when input arrives: the matches of
\* the first line only.
find_in_file_keeps_partial(S, window, env) ==
  LET W == S.win[window]
      file == S.files[W.file]
      data == W.minibar_data
  IN IF data = <<>> THEN [S EXCEPT !.win[window].matches = <<>>]
     ELSE LET cols == find(data, LineAt(file, 0).chars)
          IN [S EXCEPT !.win[window].matches =
                [j \in 1..Len(cols) |-> [x |-> cols[j], y |-> 0]]]

find_in_file(S, window, env) ==
  LET W == S.win[window]
      file == S.files[W.file]
      data == W.minibar_data
      size == Len(data)
  IN IF size = 0 THEN [S EXCEPT !.win[window].matches = <<>>]
     ELSE IF env.pending THEN [S EXCEPT !.win[window].matches = <<>>]
     ELSE Then(find_lines(data, file, 0), LAMBDA found :
          Then({ i \in 1..Len(found) : found[i].y >= W.saved_cursor_y }, LAMBDA hits :
          Then([W EXCEPT !.matches = found,
                         !.match_length = size,
                         !.match_index =
                           IF hits = {} THEN @
                           ELSE (CHOOSE i \in hits : \A j \in hits : i <= j) - 1],
               LAMBDA W1 :
            IF ~MatchReadDefined(W1, W1.match_index) /\ env.crash THEN Crash(S)
            ELSE [S EXCEPT !.win[window] =
                    set_cursor_based_on_position(W1, S,
                                                 ReadMatch(W1, W1.match_index, env))])))

(***************************************************************************)
(* Minibar and the command interpreter.  The parsers read a null           *)
(* terminated string from position p (0-based).                            *)
(***************************************************************************)
CharAt(data, p) == IF p < Len(data) THEN data[p + 1] ELSE 0

RECURSIVE skip_spaces(_, _)
skip_spaces(data, p) ==
  IF CharAt(data, p) = CharSpace THEN skip_spaces(data, p + 1) ELSE p

\* strncmp(data + p, keyword, strlen(keyword)) == 0
HasPrefixAt(data, p, keyword) ==
  \A i \in 1..Len(keyword) : CharAt(data, p + i - 1) = keyword[i]

skip_identifier(data, p, keyword) ==
  LET q == skip_spaces(data, p)
  IN IF HasPrefixAt(data, q, keyword) THEN [ok |-> TRUE, p |-> q + Len(keyword)]
     ELSE [ok |-> FALSE, p |-> q]

skip_char(data, p, c) ==
  LET q == skip_spaces(data, p)
  IN IF CharAt(data, q) = c THEN [ok |-> TRUE, p |-> q + 1] ELSE [ok |-> FALSE, p |-> q]

RECURSIVE digits_end(_, _)
digits_end(data, p) == IF is_number(CharAt(data, p)) THEN digits_end(data, p + 1) ELSE p

RECURSIVE digits_value(_, _, _)
digits_value(data, p, q) ==
  IF q <= p THEN 0 ELSE 10 * digits_value(data, p, q - 1) + (CharAt(data, q - 1) - 48)

\* strtol after skip_spaces: an optional sign, then decimal digits.
read_number(data, p) ==
  LET q == skip_spaces(data, p)
      signed == CharAt(data, q) = 43 \/ CharAt(data, q) = CharMinus
      d == IF signed THEN q + 1 ELSE q
      stop == digits_end(data, d)
      value == digits_value(data, d, stop)
  IN IF stop = d THEN [ok |-> FALSE, p |-> q, number |-> -1]
     ELSE [ok |-> TRUE, p |-> stop,
           number |-> IF CharAt(data, q) = CharMinus THEN -value ELSE value]

RECURSIVE identifier_end(_, _)
identifier_end(data, p) ==
  IF is_indentifier_literal(CharAt(data, p)) THEN identifier_end(data, p + 1) ELSE p

\* The names of the themes table; ColorThemeLight has no name.
ThemeName(i) ==
  IF i = ColorThemeDefault THEN StrDefault
  ELSE IF i = ColorThemeJonBlow THEN StrBlow
  ELSE <<>>

\* The theme index that handle_command computes before it is limited.
read_theme(data, p) ==
  LET n == read_number(data, p)
      start == skip_spaces(data, n.p)
      stop == identifier_end(data, start)
      name == SubSeq(data, start + 1, stop)
      hits == { i \in 0..(ColorThemeCount - 1) :
                  /\ ThemeName(i) # <<>>
                  /\ Len(name) <= Len(ThemeName(i))
                  /\ SubSeq(ThemeName(i), 1, Len(name)) = name }
  IN IF n.ok THEN n.number
     ELSE IF stop > start /\ hits # {} THEN CHOOSE i \in hits : \A j \in hits : i <= j
     ELSE -1

display_error(S, window) == [S EXCEPT !.win[window].error_present = TRUE]

\* enter_minibar_mode without the copy of the cursor.
enter_minibar_mode_no_save(S, window, mode) ==
  [S EXCEPT !.win[window] =
     [@ EXCEPT !.minibar_active = TRUE, !.minibar_mode = mode, !.error_present = FALSE]]

enter_minibar_mode(S, window, mode) ==
  LET W == S.win[window]
      W1 == [W EXCEPT !.minibar_active = TRUE, !.minibar_mode = mode,
                      !.error_present = FALSE]
  IN [S EXCEPT !.win[window] =
        IF mode = MinibarModeFind
        THEN [W1 EXCEPT !.saved_cursor_x = W.cursor_x, !.saved_cursor_y = W.cursor_y]
        ELSE W1]

exit_minibar_mode(W) ==
  [W EXCEPT !.minibar_data = <<>>, !.matches = <<>>, !.minibar_active = FALSE,
            !.minibar_cursor = 0]

handle_command(S, window) ==
  LET data == S.win[window].minibar_data
      split == skip_identifier(data, 0, StrSplit)
      theme == skip_identifier(data, split.p, StrTheme)
      close == skip_identifier(data, theme.p, StrClose)
      number == limit(read_theme(data, theme.p), 0, ColorThemeCount - 1)
  IN IF split.ok
     THEN IF skip_char(data, split.p, CharMinus).ok THEN split_window(S, window, TRUE)
          ELSE IF skip_char(data, split.p, CharBar).ok THEN split_window(S, window, FALSE)
          ELSE display_error(S, window)
     ELSE IF theme.ok THEN [S EXCEPT !.current_theme = number]
     ELSE IF close.ok THEN remove_window(S, window)
     ELSE display_error(S, window)

\* The fields of a pane that a FileState keeps.
FileStateOf(W, file) ==
  [file |-> file, cursor_x |-> W.cursor_x, cursor_y |-> W.cursor_y,
   cursor_x_ideal |-> W.cursor_x_ideal, offset_x |-> W.offset_x, offset_y |-> W.offset_y,
   mark_x |-> W.mark_x, mark_y |-> W.mark_y, mark_valid |-> W.mark_valid,
   previous_keycode |-> W.previous_keycode]

\* The index (1-based) of the pane's FileState of a file, or 0.
get_file_state(W, file) ==
  LET hits == { i \in 1..Len(W.file_states) : W.file_states[i].file = file }
  IN IF hits = {} THEN 0 ELSE CHOOSE i \in hits : \A j \in hits : i <= j

\* change_file without the saved states: the pane always starts at the top
\* of the file it is switched to.
change_file_forgets(S, window, file) ==
  LET W == S.win[window]
      from == FileStateOf(NewWindow, file)
  IN [S EXCEPT !.win[window] =
        [W EXCEPT !.file = file,
                  !.cursor_x = from.cursor_x, !.cursor_y = from.cursor_y,
                  !.cursor_x_ideal = from.cursor_x_ideal,
                  !.offset_x = from.offset_x, !.offset_y = from.offset_y,
                  !.mark_x = from.mark_x, !.mark_y = from.mark_y,
                  !.mark_valid = from.mark_valid,
                  !.previous_keycode = from.previous_keycode]]

change_file(S, window, file) ==
  LET W == S.win[window]
      old_file == W.file
      old_state == get_file_state(W, old_file)
      kept == IF old_file = 0 THEN W.file_states
              ELSE IF old_state = 0 THEN Append(W.file_states, FileStateOf(W, old_file))
              ELSE [W.file_states EXCEPT ![old_state] = FileStateOf(W, old_file)]
      W1 == [W EXCEPT !.file = file, !.file_states = kept]
      state == get_file_state(W1, file)
      from == IF state # 0 THEN W1.file_states[state]
              ELSE FileStateOf(NewWindow, file)
  IN [S EXCEPT !.win[window] =
        [W1 EXCEPT !.cursor_x = from.cursor_x, !.cursor_y = from.cursor_y,
                   !.cursor_x_ideal = from.cursor_x_ideal,
                   !.offset_x = from.offset_x, !.offset_y = from.offset_y,
                   !.mark_x = from.mark_x, !.mark_y = from.mark_y,
                   !.mark_valid = from.mark_valid,
                   !.previous_keycode = from.previous_keycode]]

handle_minibar_enter(S, window) ==
  LET mode == S.win[window].minibar_mode
      data == S.win[window].minibar_data
  IN Then(IF mode = MinibarModeOpen
          THEN Then(open_file(S, data), LAMBDA opened :
                 IF opened.S.crashed THEN opened.S
                 ELSE IF opened.file # 0 THEN change_file(opened.S, window, opened.file)
                 ELSE display_error(opened.S, window))
          ELSE IF mode = MinibarModeNew
          THEN change_file([S EXCEPT !.files = array_append(@, create_file(data))],
                           window, Len(S.files) + 1)
          ELSE IF mode = MinibarModeCommand THEN handle_command(S, window)
          ELSE IF mode = MinibarModeFind THEN [S EXCEPT !.win[window].matches = <<>>]
          ELSE S,
          LAMBDA S1 :
            IF window \in DOMAIN S1.win
            THEN [S1 EXCEPT !.win[window].minibar_data = <<>>]
            ELSE S1)

\* Up, Down and CtrlDown in find mode: the new match_index.
next_match_index(W, keycode) ==
  LET count == Len(W.matches)
      increment == 1 + CDiv(count, 50)
  IN IF keycode = KeyCodeUp
     THEN IF W.match_index - 1 < 0 THEN count - 1 ELSE W.match_index - 1
     ELSE IF keycode = KeyCodeDown
     THEN IF W.match_index + 1 = count THEN 0 ELSE W.match_index + 1
     ELSE IF W.match_index + increment >= count
     THEN W.match_index + increment - count ELSE W.match_index + increment

\* The switch of minibar_handle_keypress, without the final cursor limit.
minibar_switch(S, window, keycode, env) ==
  LET W == S.win[window]
      find_mode == W.minibar_mode = MinibarModeFind
      delete_count == IF keycode = KeyCodeCtrlDelete
                      THEN get_delete_count(W.minibar_data, W.minibar_cursor, TRUE)
                      ELSE 1
      W2 == [W EXCEPT !.match_index = next_match_index(W, keycode)]
  IN IF KeyCodePrintableStart <= keycode /\ keycode <= KeyCodePrintableEnd
     THEN LET S1 == [S EXCEPT
                       !.win[window].minibar_data = array_insert(@, keycode, W.minibar_cursor),
                       !.win[window].minibar_cursor = @ + 1]
          IN IF find_mode THEN find_in_file(S1, window, env) ELSE S1
     ELSE IF keycode = KeyCodeEscape
     THEN [S EXCEPT !.win[window] =
             exit_minibar_mode([W EXCEPT !.cursor_x = W.saved_cursor_x,
                                         !.cursor_y = W.saved_cursor_y,
                                         !.matches = <<>>])]
     ELSE IF keycode = KeyCodeLeft
     THEN [S EXCEPT !.win[window].minibar_cursor = max(@ - 1, 0)]
     ELSE IF keycode = KeyCodeRight
     THEN [S EXCEPT !.win[window].minibar_cursor = min(@ + 1, Len(W.minibar_data))]
     ELSE IF keycode = KeyCodeHome
     THEN [S EXCEPT !.win[window].minibar_cursor = 0]
     ELSE IF keycode = KeyCodeEnd
     THEN [S EXCEPT !.win[window].minibar_cursor = Len(W.minibar_data)]
     ELSE IF keycode \in {KeyCodeUp, KeyCodeDown, KeyCodeCtrlDown}
     THEN IF find_mode /\ Len(W.matches) # 0
          THEN IF ~MatchReadDefined(W2, W2.match_index) /\ env.crash THEN Crash(S)
               ELSE [S EXCEPT !.win[window] =
                       set_cursor_based_on_position(W2, S,
                         ReadMatch(W2, W2.match_index, env))]
          ELSE S
     ELSE IF keycode \in {KeyCodeCtrlDelete, KeyCodeDelete}
     THEN IF W.minibar_cursor # 0
          THEN LET S1 == [S EXCEPT
                            !.win[window].minibar_data =
                              array_remove_multiple(@, W.minibar_cursor - delete_count,
                                                    delete_count),
                            !.win[window].minibar_cursor = @ - delete_count]
               IN IF find_mode THEN find_in_file(S1, window, env) ELSE S1
          ELSE S
     ELSE IF keycode = KeyCodeEnter
     THEN Then(handle_minibar_enter(S, window), LAMBDA S1 :
            IF window \in DOMAIN S1.win
            THEN [S1 EXCEPT !.win[window] = exit_minibar_mode(@)]
            ELSE S1)
     ELSE S

(***************************************************************************)
(* The key dispatcher.                                                     *)
(***************************************************************************)
\* The keys whose handler indexes file->lines with the cursor.
ReadsCursorLine ==
  {KeyCodeHome, KeyCodeEnd, KeyCodeCtrlDelete, KeyCodeDelete, KeyCodeTab, KeyCodeEnter,
   UserKeyCut, UserKeyCopy, UserKeyPaste}
    \cup (KeyCodePrintableStart..KeyCodePrintableEnd)

\* The switch of editor_handle_keypress for a pane that has a file.
editor_switch(S, window, keycode) ==
  LET W == S.win[window]
      file == S.files[W.file]
      half == CDiv(S.reg[W.region].height, 2)
      spaces == get_leading_spaces(LineAt(file, W.cursor_y))
      last == Len(file.lines) - 1
  IN IF keycode \in ReadsCursorLine /\ ~CursorInFile(W, S) THEN Crash(S)
     ELSE IF keycode \in {UserKeyCut, UserKeyCopy} /\ ~MarkInFile(W, S) THEN Crash(S)
     ELSE IF keycode = KeyCodeUp
     THEN [S EXCEPT !.win[window] = update_window_cursor_y(W, W.cursor_y - 1)]
     ELSE IF keycode = KeyCodeDown
     THEN [S EXCEPT !.win[window] = update_window_cursor_y(W, W.cursor_y + 1)]
     ELSE IF keycode = UserKeyPageUp
     THEN [S EXCEPT !.win[window] =
             update_window_offset_y(update_window_cursor_y(W, W.cursor_y - half), S,
                                    W.offset_y - half)]
     ELSE IF keycode = UserKeyPageDown
     THEN [S EXCEPT !.win[window] =
             update_window_offset_y(update_window_cursor_y(W, W.cursor_y + half), S,
                                    W.offset_y + half)]
     ELSE IF keycode = KeyCodeShiftHome
     THEN [S EXCEPT !.win[window] =
             update_window_cursor_y(update_window_cursor_x(W, 0), 0)]
     ELSE IF keycode = KeyCodeShiftEnd
     THEN [S EXCEPT !.win[window] =
             update_window_cursor_y(
               update_window_cursor_x(W, Len(LineAt(file, last).chars)), last)]
     ELSE IF keycode = KeyCodeLeft
     THEN [S EXCEPT !.win[window] = update_window_cursor_x(W, W.cursor_x - 1)]
     ELSE IF keycode = KeyCodeRight
     THEN [S EXCEPT !.win[window] = update_window_cursor_x(W, W.cursor_x + 1)]
     ELSE IF keycode = KeyCodeHome
     THEN [S EXCEPT !.win[window] =
             update_window_cursor_x(W, IF W.cursor_x > spaces THEN spaces ELSE 0)]
     ELSE IF keycode = KeyCodeEnd
     THEN [S EXCEPT !.win[window] =
             update_window_cursor_x(W, Len(LineAt(file, W.cursor_y).chars))]
     ELSE IF keycode = KeyCodeCtrlUp THEN resize_window(S, window, 1)
     ELSE IF keycode = KeyCodeCtrlDown THEN resize_window(S, window, -1)
     ELSE IF keycode = KeyCodeCtrlLeft THEN remove_window(S, window)
     ELSE IF keycode = KeyCodeCtrlRight THEN swap_windows(S, window)
     ELSE IF keycode = KeyCodeCtrlDelete THEN delete_character_or_word(S, window, TRUE)
     ELSE IF keycode = KeyCodeCtrlF THEN enter_minibar_mode(S, window, MinibarModeFind)
     ELSE IF keycode = KeyCodeDelete THEN delete_character_or_word(S, window, FALSE)
     ELSE IF keycode = KeyCodeTab
     THEN Then(insert_character(S, window, CharSpace), LAMBDA T :
            insert_character(T, window, CharSpace))
     ELSE IF keycode = KeyCodeEnter THEN insert_newline(S, window)
     ELSE IF keycode = KeyCodeEscape THEN [S EXCEPT !.win[window].error_present = FALSE]
     ELSE IF keycode = UserKeyMark
     THEN [S EXCEPT !.win[window].mark_valid = TRUE,
                    !.win[window].mark_x = W.cursor_x,
                    !.win[window].mark_y = W.cursor_y]
     ELSE IF keycode = UserKeyCut THEN cut(S, window)
     ELSE IF keycode = UserKeyCopy THEN copy(S, window)
     ELSE IF keycode = UserKeyPaste THEN paste(S, window)
     ELSE IF keycode = UserKeySave
     THEN Then(save_file(S, W.file), LAMBDA saved :
            IF saved.ok THEN saved.S ELSE display_error(saved.S, window))
     ELSE IF KeyCodePrintableStart <= keycode /\ keycode <= KeyCodePrintableEnd
     THEN insert_character(S, window, keycode)
     ELSE S

\* The cursor limit that ends both key handlers.  When the handler released
\* the pane (close), the limit reads freed memory; the live state is not
\* changed by it.
final_limit(S, window) ==
  IF S.crashed \/ window \notin DOMAIN S.win THEN S
  ELSE IF S.win[window].file # 0
  THEN [S EXCEPT !.win[window] = limit_window_cursor(@, S)]
  ELSE S

editor_handle_keypress(S, window, keycode) ==
  Then(IF keycode = UserKeyOpen THEN enter_minibar_mode(S, window, MinibarModeOpen)
       ELSE IF keycode = UserKeyFocusNext THEN focus_next(S)
       ELSE IF keycode = UserKeyFocusPrevious THEN focus_previous(S)
       ELSE IF keycode = UserKeyNew THEN enter_minibar_mode(S, window, MinibarModeNew)
       ELSE IF keycode = UserKeyCommand
       THEN enter_minibar_mode(S, window, MinibarModeCommand)
       ELSE IF S.win[window].file # 0 THEN editor_switch(S, window, keycode)
       ELSE S,
       LAMBDA T : final_limit(T, window))

minibar_handle_keypress(S, window, keycode, env) ==
  Then(minibar_switch(S, window, keycode, env), LAMBDA T : final_limit(T, window))

\* One turn of update() with get_input() = keycode.  A pane released during
\* the dispatch is still written to afterwards (previous_keycode and, in the
\* handlers, the cursor limit and the minibar clean-up): the process stops
\* (env.crash) or goes on with the live objects unchanged.
update(S, keycode, env) ==
  LET window == S.focused_window
  IN Then(IF S.win[window].minibar_active
          THEN minibar_handle_keypress(S, window, keycode, env)
          ELSE editor_handle_keypress(S, window, keycode),
          LAMBDA S1 :
            IF S1.crashed THEN S1
            ELSE IF window \notin DOMAIN S1.win
            THEN IF env.crash THEN Crash(S1) ELSE S1
            ELSE [S1 EXCEPT !.win[window].previous_keycode = keycode])

\* keys[i] of the char buffer (0-based), as the int it promotes to.
KeyAt(keys, i) == IF keys[i + 1] >= 128 THEN keys[i + 1] - 256 ELSE keys[i + 1]

\* get_input() for one read() that returned the bytes `keys`.
get_input(keys) ==
  LET size == Len(keys)
      code == KeyAt(keys, 0)
      arrow(final, up, down, left, right) ==
        IF final = 65 THEN up
        ELSE IF final = 66 THEN down
        ELSE IF final = 68 THEN left
        ELSE IF final = 67 THEN right
        ELSE code
  IN IF size = 0 THEN KeyCodeNone
     ELSE IF code = KeyCodeEscape /\ size > 2 /\ KeyAt(keys, 1) = 91
     THEN IF size = 3
          THEN IF KeyAt(keys, 2) = 72 THEN KeyCodeHome
               ELSE IF KeyAt(keys, 2) = 75 THEN KeyCodeShiftEnd
               ELSE arrow(KeyAt(keys, 2), KeyCodeUp, KeyCodeDown, KeyCodeLeft, KeyCodeRight)
          ELSE IF size = 4
          THEN IF KeyAt(keys, 2) = 52 /\ KeyAt(keys, 3) = 126 THEN KeyCodeEnd
               ELSE IF KeyAt(keys, 2) = 50 /\ KeyAt(keys, 3) = 74 THEN KeyCodeShiftHome
               ELSE code
          ELSE IF size = 6 /\ KeyAt(keys, 2) = 49 /\ KeyAt(keys, 3) = 59
          THEN IF KeyAt(keys, 4) = 50
               THEN arrow(KeyAt(keys, 5), KeyCodeShiftUp, KeyCodeShiftDown,
                          KeyCodeShiftLeft, KeyCodeShiftRight)
               ELSE IF KeyAt(keys, 4) = 53
               THEN arrow(KeyAt(keys, 5), KeyCodeCtrlUp, KeyCodeCtrlDown,
                          KeyCodeCtrlLeft, KeyCodeCtrlRight)
               ELSE code
          ELSE code
     ELSE IF code = KeyCodeEscape /\ size > 1 THEN KeyCodeNone
     ELSE code

\* One turn of the loop of update(): a read that decodes to no key is
\* dropped, any other keycode is dispatched.
update_read(S, keys, env) ==
  Then(get_input(keys), LAMBDA keycode :
    IF keycode = KeyCodeNone THEN S ELSE update(S, keycode, env))

\* The environment's choices that the dispatch of keycode can consult.
Envs(keycode) ==
  LET W == win[focused_window]
      file == files[W.file]
      scanning == W.minibar_active /\ W.minibar_mode = MinibarModeFind
  IN IF scanning
     THEN {[NoEnv EXCEPT !.pending = TRUE], [NoEnv EXCEPT !.crash = TRUE]}
            \cup { [NoEnv EXCEPT !.garbage = [x |-> x, y |-> y]] :
                     x \in 0..Len(LineAt(file, 0).chars), y \in 0..(Len(file.lines) - 1) }
     ELSE {NoEnv, [NoEnv EXCEPT !.crash = TRUE]}

Install(S) ==
  /\ files' = S.files
  /\ windows' = S.windows
  /\ win' = S.win
  /\ reg' = S.reg
  /\ focused_window' = S.focused_window
  /\ clipboard' = S.clipboard
  /\ current_theme' = S.current_theme
  /\ crashed' = S.crashed
  /\ disk' = S.disk

\* update() reads one keycode and dispatches it; render() follows.
Dispatch(keycode) ==
  /\ ~crashed
  /\ \E env \in Envs(keycode) :
       \E S \in {update(State, keycode, env)} : Install(S)

\* SIGWINCH: resize_master_region, which ends with render().
TerminalResize(width, height) ==
  /\ ~crashed
  /\ \E S \in {resize_master_region(State, width, height)} : Install(S)

(***************************************************************************)
(* Start-up.                                                               *)
(***************************************************************************)
editor_init(width, height) ==
  LET S0 == [files |-> <<>>, windows |-> <<>>, win |-> <<>>,
             reg |-> (master_region :> NewRegion), focused_window |-> 0,
             clipboard |-> <<>>, current_theme |-> ColorThemeJonBlow,
             crashed |-> FALSE, disk |-> <<>>]
  IN Then(allocate_window(S0), LAMBDA S1 :
     Then(S1.windows[Len(S1.windows)], LAMBDA window :
       resize_master_region(
         [S1 EXCEPT !.reg[master_region].window = window, !.focused_window = window],
         width, height)))

\* main(): the editor starts with the file at path open in two panes side by
\* side, the left one focused.
main(path, data, width, height) ==
  Then(editor_init(width, height), LAMBDA S0 :
  Then(S0.reg[master_region].window, LAMBDA master :
  Then(open_file([S0 EXCEPT !.disk = (path :> data) @@ @], path), LAMBDA opened :
  Then(split_window([opened.S EXCEPT !.win[master].file = opened.file],
                    master, FALSE), LAMBDA S2 :
    [S2 EXCEPT !.win[S2.windows[Len(S2.windows)]].file = opened.file]))))

Start(S) ==
  /\ files = S.files
  /\ windows = S.windows
  /\ win = S.win
  /\ reg = S.reg
  /\ focused_window = S.focused_window
  /\ clipboard = S.clipboard
  /\ current_theme = S.current_theme
  /\ crashed = S.crashed
  /\ disk = S.disk

\* The terminal of the scenarios.
TermWidth == 120

TermHeight == 40

StrT == <<116>>

StrTC == <<116, 46, 99>>

\* The text in the state stays within the given sizes.
Fits(maxLines, maxLength, maxClip) ==
  /\ \A f \in DOMAIN files :
       /\ Len(files[f].lines) <= maxLines
       /\ \A i \in DOMAIN files[f].lines : Len(files[f].lines[i].chars) <= maxLength
  /\ Len(clipboard) <= maxClip

(***************************************************************************)
(* Typing and deleting in the focused pane of a new file.                  *)
(***************************************************************************)
EditLines == 3

EditLength == 2

EditKeys ==
  {97, KeyCodeTab, KeyCodeEnter, KeyCodeDelete, KeyCodeCtrlDelete,
   KeyCodeLeft, KeyCodeRight, KeyCodeUp, KeyCodeDown}

InitEdit ==
  \E path \in {StrT, StrTC} : \E S \in {main(path, <<>>, TermWidth, TermHeight)} : Start(S)

EditKey ==
  \E keycode \in EditKeys :
    Dispatch(keycode) /\ Fits(EditLines, EditLength, 0)'

NextEdit == EditKey

SpecEdit == InitEdit /\ [][NextEdit]_vars

(***************************************************************************)
(* The mark and the clipboard in the focused pane of a file read from      *)
(* disk: "ab\n", the lines "ab" and "".                                    *)
(***************************************************************************)
ClipLines == 2

ClipLength == 2

ClipSize == 2

ClipKeys ==
  {UserKeyMark, UserKeyCut, UserKeyCopy, UserKeyPaste,
   KeyCodeLeft, KeyCodeRight, KeyCodeUp, KeyCodeDown}

InitClip == \E S \in {main(StrTC, <<97, 98, CharNewline>>, TermWidth, TermHeight)} : Start(S)

ClipKey ==
  \E keycode \in ClipKeys :
    Dispatch(keycode) /\ Fits(ClipLines, ClipLength, ClipSize)'

NextClip == ClipKey

SpecClip == InitClip /\ [][NextClip]_vars

(***************************************************************************)
(* Two panes on one file, as main() starts them: moving, merging and       *)
(* splitting lines and changing the focus.  The file on disk holds         *)
(* ShareLines - 1 empty lines.                                             *)
(***************************************************************************)
ShareLines == 3

ShareKeys ==
  {KeyCodeDown, KeyCodeUp, KeyCodeEnter, KeyCodeDelete, UserKeyFocusNext}

InitShare ==
  \E S \in {main(StrTC, [i \in 1..(ShareLines - 1) |-> CharNewline], TermWidth, TermHeight)} : Start(S)

ShareKey ==
  \E keycode \in ShareKeys :
    Dispatch(keycode) /\ Fits(ShareLines, 0, 0)'

NextShare == ShareKey

SpecShare == InitShare /\ [][NextShare]_vars

(***************************************************************************)
(* The same two panes on a file of FrameLines empty lines, with a terminal *)
(* whose height changes between TermHeight and ShortHeight rows.           *)
(***************************************************************************)
FrameLines == 14

ShortHeight == 14

FrameKeys == {KeyCodeDown, KeyCodeUp, UserKeyFocusNext}

InitFrame ==
  \E S \in {main(StrTC, [i \in 1..(FrameLines - 1) |-> CharNewline], TermWidth, TermHeight)} : Start(S)

FrameKey == \E keycode \in FrameKeys : Dispatch(keycode)

FrameResize ==
  \E height \in {TermHeight, ShortHeight} : TerminalResize(TermWidth, height)

NextFrame == FrameKey \/ FrameResize

SpecFrame == InitFrame /\ [][NextFrame]_vars

(***************************************************************************)
(* The layout: the commands "split-", "split|" and "close" entered in the  *)
(* minibar and the keys that close and swap panes and move the focus, in a *)
(* terminal of LayoutWidth columns.  At most LayoutWindows panes.          *)
(***************************************************************************)
LayoutWindows == 3

LayoutWidth == 80

Commands == {StrSplit \o <<CharMinus>>, StrSplit \o <<CharBar>>, StrClose}

LayoutKeys == {KeyCodeCtrlLeft, KeyCodeCtrlRight, UserKeyFocusNext}

\* The keys of a sequence dispatched one after the other.
RECURSIVE TypeKeys(_, _, _)
TypeKeys(S, keys, env) ==
  IF keys = <<>> \/ S.crashed THEN S
  ELSE Then(update(S, Head(keys), env), LAMBDA T : TypeKeys(T, Tail(keys), env))

LayoutBound == Cardinality(DOMAIN win) <= LayoutWindows

InitLayout == \E S \in {main(StrTC, <<>>, LayoutWidth, TermHeight)} : Start(S)

\* A command entered whole: the command key, the bytes of the command, Enter.
LayoutCommand ==
  /\ ~crashed
  /\ ~win[focused_window].minibar_active
  /\ \E command \in Commands : \E env \in Envs(KeyCodeEnter) :
       \E S \in {TypeKeys(State, <<UserKeyCommand>> \o command \o <<KeyCodeEnter>>, env)} :
         Install(S)
  /\ LayoutBound'

LayoutKey == \E keycode \in LayoutKeys : Dispatch(keycode)

NextLayout == LayoutCommand \/ LayoutKey

SpecLayout == InitLayout /\ [][NextLayout]_vars

(***************************************************************************)
(* SpecOpen: the start-up on an empty t.c, with a second file "a" on disk  *)
(* that holds any short byte string of 'a', '\n' and '\r'; the keys of     *)
(* open mode and save.                                                     *)
(***************************************************************************)
OpenSize == 3

OpenPathLength == 1

StrA == <<97>>

OpenBytes == {97, CharNewline, CharReturn}

OpenContents == UNION { [1..n -> OpenBytes] : n \in 0..OpenSize }

\* The keys typed in the minibar only.
OpenLetters == {97, 116, KeyCodeEnter}

OpenKeys == OpenLetters \cup {UserKeyOpen, UserKeySave}

OpenBound == \A w \in DOMAIN win : Len(win[w].minibar_data) <= OpenPathLength

InitOpen ==
  \E data \in OpenContents :
    \E S \in {main(StrTC, <<>>, TermWidth, TermHeight)} :
      Start([S EXCEPT !.disk = (StrA :> data) @@ @])

OpenKey ==
  \E keycode \in OpenKeys :
    /\ keycode \in OpenLetters => win[focused_window].minibar_active
    /\ Dispatch(keycode)
    /\ OpenBound'

NextOpen == OpenKey

SpecOpen == InitOpen /\ [][NextOpen]_vars

(***************************************************************************)
(* SpecFind: a file of two lines, each any string of 'a' and 'b' of        *)
(* FindLength bytes; find mode is entered and a pattern is typed key by    *)
(* key, every key under every choice of the environment.                   *)
(***************************************************************************)
FindLength == 3

FindPattern == 2

\* The keys typed in the minibar only.
FindLetters == {97, 98}

FindKeys == FindLetters \cup {KeyCodeCtrlF, KeyCodeEscape}

FindBound == \A w \in DOMAIN win : Len(win[w].minibar_data) <= FindPattern

InitFind ==
  \E first \in [1..FindLength -> FindLetters], second \in [1..FindLength -> FindLetters] :
    \E S \in {main(StrT, first \o <<CharNewline>> \o second \o <<CharNewline>>,
                   TermWidth, TermHeight)} : Start(S)

FindKey ==
  \E keycode \in FindKeys :
    /\ keycode \in FindLetters => win[focused_window].minibar_active
    /\ Dispatch(keycode)
    /\ FindBound'

NextFind == FindKey

SpecFind == InitFind /\ [][NextFind]_vars

(***************************************************************************)
(* SpecFindLong: a file whose first line is any string of 'a' and 'b' of   *)
(* LongLength bytes; a whole pattern of LongPattern bytes is typed in find *)
(* mode in one step, and Escape leaves find mode.                          *)
(***************************************************************************)
LongLength == 8

LongPattern == 6

LongPatterns == [1..LongPattern -> FindLetters]

InitFindLong ==
  \E line \in [1..LongLength -> FindLetters] :
    \E S \in {main(StrT, line \o <<CharNewline>>, TermWidth, TermHeight)} : Start(S)

FindLongType ==
  /\ ~crashed
  /\ ~win[focused_window].minibar_active
  /\ \E pattern \in LongPatterns : \E env \in Envs(KeyCodeCtrlF) :
       \E S \in {TypeKeys(State, <<KeyCodeCtrlF>> \o pattern, env)} : Install(S)

\* Escape in the minibar consults nothing of the environment.
FindLongEscape ==
  /\ ~crashed
  /\ win[focused_window].minibar_active
  /\ \E S \in {update(State, KeyCodeEscape, NoEnv)} : Install(S)

NextFindLong == FindLongType \/ FindLongEscape

SpecFindLong == InitFindLong /\ [][NextFindLong]_vars

(***************************************************************************)
(* SpecBrace: braces, indentation and Enter in a new file.                 *)
(***************************************************************************)
BraceLines == 3

BraceLength == 3

BraceKeys == {CharOpenBrace, KeyCodeTab, KeyCodeEnter, KeyCodeLeft, KeyCodeUp}

InitBrace == \E S \in {main(StrT, <<>>, TermWidth, TermHeight)} : Start(S)

BraceKey ==
  \E keycode \in BraceKeys :
    Dispatch(keycode) /\ Fits(BraceLines, BraceLength, 0)'

NextBrace == BraceKey

SpecBrace == InitBrace /\ [][NextBrace]_vars

(***************************************************************************)
(* SpecWord: a file whose first line is any string of up to WordLength     *)
(* bytes of 'a', ' ' and '-'; the cursor moves right and deletes.          *)
(***************************************************************************)
WordLength == 4

WordBytes == {97, CharSpace, CharMinus}

WordKeys == {KeyCodeRight, KeyCodeDelete, KeyCodeCtrlDelete}

InitWord ==
  \E line \in UNION { [1..n -> WordBytes] : n \in 0..WordLength } :
    \E S \in {main(StrT, line \o <<CharNewline>>, TermWidth, TermHeight)} : Start(S)

WordKey == \E keycode \in WordKeys : Dispatch(keycode)

NextWord == WordKey

SpecWord == InitWord /\ [][NextWord]_vars

(***************************************************************************)
(* SpecSeek: a file of two lines, the first any string of 'a' and 'b' of   *)
(* SeekLength bytes, the second "ab".  The cursor moves, find mode is      *)
(* entered from wherever it stands, the pattern is typed and deleted, the  *)
(* matches are walked with Up and Down, and Escape leaves find mode; every *)
(* key under every choice of the environment.                              *)
(***************************************************************************)
SeekLength == 2

SeekPattern == 2

\* The keys dispatched while the minibar is closed.
SeekKeys == {KeyCodeDown, KeyCodeCtrlF}

\* The keys dispatched while the minibar is open.
SeekTyped == FindLetters \cup {KeyCodeUp, KeyCodeDown, KeyCodeDelete, KeyCodeEscape}

\* match_index grows without limit when Down is repeated on an index that
\* already lies behind the list (a stale index that no scan has replaced).
SeekIndex == 4

SeekBound ==
  \A w \in DOMAIN win : /\ Len(win[w].minibar_data) <= SeekPattern
                         /\ win[w].match_index <= SeekIndex

InitSeek ==
  \E first \in [1..SeekLength -> FindLetters] :
    \E S \in {main(StrT, first \o <<CharNewline, 97, 98, CharNewline>>,
                   TermWidth, TermHeight)} : Start(S)

SeekKey ==
  \E keycode \in SeekKeys \cup SeekTyped :
    /\ keycode \in (IF win[focused_window].minibar_active THEN SeekTyped ELSE SeekKeys)
    /\ Dispatch(keycode)
    /\ SeekBound'

NextSeek == SeekKey

SpecSeek == InitSeek /\ [][NextSeek]_vars

(***************************************************************************)
(* SpecSwitch: t.c ("ab", "") is shown, a second file "a" ("ba", "") is on *)
(* disk.  The cursor and the mark move and open mode is committed with a   *)
(* whole path, which switches the pane between the two files.              *)
(***************************************************************************)
SwitchPaths == {StrTC, StrA}

SwitchKeys == {KeyCodeRight, UserKeyMark}

InitSwitch ==
  \E S \in {main(StrTC, <<97, 98, CharNewline>>, TermWidth, TermHeight)} :
    Start([S EXCEPT !.disk = (StrA :> <<98, 97, CharNewline>>) @@ @])

SwitchKey == \E keycode \in SwitchKeys : Dispatch(keycode)

SwitchOpen ==
  /\ ~crashed
  /\ \E path \in SwitchPaths : \E env \in Envs(KeyCodeEnter) :
       \E S \in {TypeKeys(State, <<UserKeyOpen>> \o path \o <<KeyCodeEnter>>, env)} :
         Install(S)

NextSwitch == SwitchKey \/ SwitchOpen

SpecSwitch == InitSwitch /\ [][NextSwitch]_vars

(***************************************************************************)
(* SpecError: the start-up on an empty t.c; panes are added with the       *)
(* command "split|" (a pane made by the command has no file), the focus    *)
(* moves, open mode is committed with a path that does not exist, which    *)
(* shows an error in the focused pane, and Escape is dispatched.           *)
(***************************************************************************)
ErrorWindows == 3

\* A path that is neither loaded nor on disk.
StrX == <<120>>

ErrorKeys == {UserKeyFocusNext, KeyCodeEscape, UserKeyMark}

ErrorBound == Cardinality(DOMAIN win) <= ErrorWindows

InitError == \E S \in {main(StrTC, <<>>, TermWidth, TermHeight)} : Start(S)

ErrorSplit ==
  /\ ~crashed
  /\ \E env \in Envs(KeyCodeEnter) :
       \E S \in {TypeKeys(State, <<UserKeyCommand>> \o StrSplit \o <<CharBar, KeyCodeEnter>>, env)} :
         Install(S)
  /\ ErrorBound'

ErrorOpen ==
  /\ ~crashed
  /\ \E env \in Envs(KeyCodeEnter) :
       \E S \in {TypeKeys(State, <<UserKeyOpen>> \o StrX \o <<KeyCodeEnter>>, env)} :
         Install(S)

ErrorKey == \E keycode \in ErrorKeys : Dispatch(keycode)

NextError == ErrorSplit \/ ErrorOpen \/ ErrorKey

SpecError == InitError /\ [][NextError]_vars

(***************************************************************************)
(* SpecInput: an empty file is shown and update() runs on reads that       *)
(* start with ESC: ESC alone, ESC and up to InputSize further bytes, the   *)
(* four-byte forms ESC [ d f and the six-byte forms ESC [ 1 ; m f.         *)
(***************************************************************************)
InputSize == 2

\* ESC [ A B C D H K Z 4 ~
InputBytes == {27, 91, 65, 66, 67, 68, 72, 75, 90, 52, 126}

\* ESC [ and 4 or 2, then ~ or J.
LongReads == { <<27, 91, d, f>> : d \in {52, 50}, f \in {126, 74} }

\* ESC [ 1 ; and 2, 5 or 3, then A, B, C, D or Z.
ModifiedReads ==
  { <<27, 91, 49, 59, m, f>> : m \in {50, 53, 51}, f \in {65, 66, 67, 68, 90} }

EscapeReads ==
  { <<27>> \o tail : tail \in UNION { [1..n -> InputBytes] : n \in 0..InputSize } }
    \cup LongReads \cup ModifiedReads

\* The two panes of the start-up have little room to be resized in.
InputWidth == 84

InitInput ==
  \E S \in {main(StrT, <<>>, InputWidth, TermHeight)} : Start(S)

InputRead ==
  /\ ~crashed
  /\ \E keys \in EscapeReads : \E env \in Envs(get_input(keys)) :
       \E S \in {update_read(State, keys, env)} : Install(S)

NextInput == InputRead

SpecInput == InitInput /\ [][NextInput]_vars

(***************************************************************************)
(* SpecFocus: the start-up on an empty t.c; the focus moves in both        *)
(* directions, panes are closed with ctrl-left, and the commands "close"   *)
(* and "split|" are typed into the command prompt key by key, committed    *)
(* with Enter or given up with Escape.  At most FocusWindows panes.        *)
(***************************************************************************)
FocusWindows == 2

FocusCommands == {StrClose, StrSplit \o <<CharBar>>}

\* The keys dispatched while the minibar is closed.
FocusKeys == {UserKeyFocusNext, UserKeyFocusPrevious, UserKeyCommand, KeyCodeCtrlLeft}

\* The keys dispatched while the minibar is open.
FocusTyped ==
  UNION { { command[i] : i \in 1..Len(command) } : command \in FocusCommands }
    \cup {KeyCodeEnter, KeyCodeEscape}

IsPrefix(data, command) ==
  Len(data) <= Len(command) /\ data = SubSeq(command, 1, Len(data))

FocusBound ==
  /\ Cardinality(DOMAIN win) <= FocusWindows
  /\ \A w \in DOMAIN win : \E command \in FocusCommands : IsPrefix(win[w].minibar_data, command)

InitFocus == \E S \in {main(StrTC, <<>>, TermWidth, TermHeight)} : Start(S)

FocusKey ==
  \E keycode \in FocusKeys \cup FocusTyped :
    /\ keycode \in (IF win[focused_window].minibar_active THEN FocusTyped ELSE FocusKeys)
    /\ Dispatch(keycode)
    /\ FocusBound'

NextFocus == FocusKey

SpecFocus == InitFocus /\ [][NextFocus]_vars

(***************************************************************************)
(* SpecNew: the start-up on an empty t.c with a file "a" on disk; open     *)
(* mode and new mode are committed with the paths "a" and "t.c", and the   *)
(* focus moves between the two panes.  At most NewFiles loaded files.      *)
(***************************************************************************)
NewFiles == 3

NewPaths == {StrA, StrTC}

NewBound == Len(files) <= NewFiles

InitNew ==
  \E S \in {main(StrTC, <<>>, TermWidth, TermHeight)} :
    Start([S EXCEPT !.disk = (StrA :> <<97, CharNewline>>) @@ @])

NewCommit ==
  /\ ~crashed
  /\ \E mode \in {UserKeyOpen, UserKeyNew} : \E path \in NewPaths :
       \E env \in Envs(KeyCodeEnter) :
         \E S \in {TypeKeys(State, <<mode>> \o path \o <<KeyCodeEnter>>, env)} : Install(S)
  /\ NewBound'

NewKey == Dispatch(UserKeyFocusNext)

NextNew == NewCommit \/ NewKey

SpecNew == InitNew /\ [][NextNew]_vars

(***************************************************************************)
(* SpecPrompt: t.c ("ab", "") is shown; the cursor moves, the prompts of   *)
(* the minibar are opened, typed into and cancelled.                       *)
(***************************************************************************)
PromptLength == 1

\* The keys dispatched while the minibar is closed.
PromptKeys == {KeyCodeRight, KeyCodeDown, UserKeyOpen, UserKeyNew, UserKeyCommand}

\* The keys dispatched while the minibar is open.
PromptTyped == {97, KeyCodeLeft, KeyCodeDelete, KeyCodeEscape}

PromptBound == \A w \in DOMAIN win : Len(win[w].minibar_data) <= PromptLength

InitPrompt ==
  \E S \in {main(StrTC, <<97, 98, CharNewline>>, TermWidth, TermHeight)} : Start(S)

PromptKey ==
  \E keycode \in PromptKeys \cup PromptTyped :
    /\ win[focused_window].minibar_active <=> keycode \in PromptTyped
    /\ Dispatch(keycode)
    /\ PromptBound'

NextPrompt == PromptKey

SpecPrompt == InitPrompt /\ [][NextPrompt]_vars

(***************************************************************************)
(* The text of a file as one byte string, and positions in it.             *)
(***************************************************************************)
\* The lines from line i (1-based) on, joined by '\n'.
RECURSIVE JoinLines(_, _)
JoinLines(lines, i) ==
  IF i > Len(lines) THEN <<>>
  ELSE IF i = Len(lines) THEN lines[i].chars
  ELSE lines[i].chars \o <<CharNewline>> \o JoinLines(lines, i + 1)

FileBytes(file) == JoinLines(file.lines, 1)

\* The number of bytes of FileBytes(file) before column x of line y.
RECURSIVE ByteOffset(_, _, _)
ByteOffset(file, x, y) ==
  IF y = 0 THEN x
  ELSE Len(LineAt(file, y - 1).chars) + 1 + ByteOffset(file, x, y - 1)

\* The last dispatch was keycode, handled by the editor handler of the pane
\* that is focused before and after it.
Pressed(keycode) ==
  /\ ~crashed'
  /\ focused_window' = focused_window
  /\ ~win[focused_window].minibar_active
  /\ win'[focused_window].previous_keycode = keycode

(***************************************************************************)
(* C1: after every dispatched keycode every pane that has a file, focused  *)
(* or not, has its cursor on a line of the file and within that line.      *)
(***************************************************************************)
C1_CursorInFile ==
  ~crashed => \A w \in DOMAIN win : win[w].file # 0 => CursorInFile(win[w], State)

(***************************************************************************)
(* C3: every operation that changes a file's bytes or its line list leaves *)
(* that file with saved = false.                                           *)
(***************************************************************************)
C3_MutationClearsSaved ==
  [][\A f \in DOMAIN files :
       FileBytes(files'[f]) # FileBytes(files[f]) => ~files'[f].saved]_vars

(***************************************************************************)
(* C4: after every dispatch every line of every open file has at least as  *)
(* many colors as chars.                                                   *)
(***************************************************************************)
C4_ColorsCoverChars ==
  \A f \in DOMAIN files :
    \A i \in DOMAIN files[f].lines :
      files[f].lines[i].colors_count >= Len(files[f].lines[i].chars)

(***************************************************************************)
(* C8: at every rendered frame every pane that has a file has the cursor   *)
(* inside its viewport: offset_y <= cursor_y < offset_y + height - 1 and   *)
(* offset_x <= cursor_x < offset_x + width - left_padding.                 *)
(***************************************************************************)
C8_CursorInViewport ==
  ~crashed =>
    \A w \in DOMAIN win :
      win[w].file # 0 =>
        LET W == win[w]
        IN /\ W.offset_y <= W.cursor_y
           /\ W.cursor_y < W.offset_y + (reg[W.region].height - 1)
           /\ W.offset_x <= W.cursor_x
           /\ W.cursor_x < W.offset_x + (reg[W.region].width - get_left_padding(W, State))

(***************************************************************************)
(* C9: paste inserts exactly the clipboard bytes at the cursor: the text   *)
(* before and after the old cursor is unchanged, the cursor ends at the    *)
(* end of the inserted bytes; copy puts the bytes between mark and cursor  *)
(* in the clipboard and leaves the text alone, so that copy followed by    *)
(* paste inserts the copied block byte for byte.                           *)
(***************************************************************************)
C9_PasteInsertsClipboard ==
  [][LET W == win[focused_window]
         W2 == win'[focused_window]
         text == FileBytes(files[W.file])
         text2 == FileBytes(files'[W.file])
         at == ByteOffset(files[W.file], W.cursor_x, W.cursor_y)
         mark == ByteOffset(files[W.file], W.mark_x, W.mark_y)
     IN /\ Pressed(UserKeyPaste) =>
             /\ clipboard' = clipboard
             /\ text2 = SubSeq(text, 1, at) \o clipboard \o SubSeq(text, at + 1, Len(text))
             /\ InFile(files'[W.file], W2.cursor_x, W2.cursor_y)
             /\ ByteOffset(files'[W.file], W2.cursor_x, W2.cursor_y) = at + Len(clipboard)
        /\ Pressed(UserKeyCopy) =>
             /\ clipboard' = SubSeq(text, min(at, mark) + 1, max(at, mark))
             /\ text2 = text
             /\ W2.cursor_x = W.cursor_x /\ W2.cursor_y = W.cursor_y]_vars

\* A paste of "b\n" has just been done: the cursor is at the start of the
\* line after the inserted bytes.
C9_Witness ==
  /\ ~crashed
  /\ win[focused_window].previous_keycode = UserKeyPaste
  /\ clipboard = <<98, CharNewline>>
  /\ win[focused_window].cursor_y = 1
  /\ win[focused_window].cursor_x = 0
  /\ Len(files[1].lines) = 2

(***************************************************************************)
(* C10: cut puts the bytes between mark and cursor (in text order, lines   *)
(* joined by '\n') in the clipboard, removes exactly those bytes from the  *)
(* file and leaves the cursor at the start of the removed range.           *)
(***************************************************************************)
C10_CutRemovesBlock ==
  [][LET W == win[focused_window]
         W2 == win'[focused_window]
         text == FileBytes(files[W.file])
         text2 == FileBytes(files'[W.file])
         at == ByteOffset(files[W.file], W.cursor_x, W.cursor_y)
         mark == ByteOffset(files[W.file], W.mark_x, W.mark_y)
         start == min(at, mark)
         end == max(at, mark)
     IN Pressed(UserKeyCut) =>
          /\ clipboard' = SubSeq(text, start + 1, end)
          /\ text2 = SubSeq(text, 1, start) \o SubSeq(text, end + 1, Len(text))
          /\ InFile(files'[W.file], W2.cursor_x, W2.cursor_y)
          /\ ByteOffset(files'[W.file], W2.cursor_x, W2.cursor_y) = start]_vars

\* A cut of "b\n" out of "ab\n" has just been done: one line "a" is left and
\* the cursor is behind the "a".
C10_Witness ==
  /\ ~crashed
  /\ win[focused_window].previous_keycode = UserKeyCut
  /\ clipboard = <<98, CharNewline>>
  /\ Len(files[1].lines) = 1
  /\ files[1].lines[1].chars = <<97>>
  /\ win[focused_window].cursor_x = 1
  /\ win[focused_window].cursor_y = 0

(***************************************************************************)
(* C2: every region lies inside the root rectangle and every leaf region   *)
(* has a positive width and a positive height.                             *)
(***************************************************************************)
C2_RegionsInsideRoot ==
  ~crashed =>
    \A r \in DOMAIN reg :
      /\ reg[r].x + reg[r].width <= reg[master_region].width
      /\ reg[r].y + reg[r].height <= reg[master_region].height
      /\ reg[r].window # 0 => reg[r].width > 0 /\ reg[r].height > 0

\* The regions r, next(r), next(next(r)), ..., count of them.
RECURSIVE Walk(_, _, _)
Walk(R, r, count) ==
  IF count = 0 THEN <<>> ELSE <<r>> \o Walk(R, get_next_region(R, r), count - 1)

Leaves == { r \in DOMAIN reg : reg[r].childs[1] = 0 }

(***************************************************************************)
(* C7: get_next_region applied repeatedly from the leftmost leaf visits    *)
(* every leaf exactly once and is back at the leftmost leaf after as many  *)
(* steps as there are leaves.                                              *)
(***************************************************************************)
C7_NextRegionCycles ==
  ~crashed =>
    LET count == Cardinality(Leaves)
        walk == Walk(reg, recurse_left(reg, master_region), count + 1)
    IN /\ { walk[i] : i \in 1..count } = Leaves
       /\ walk[count + 1] = walk[1]

\* Three leaves, the right child of the root an internal node.
C7_Witness ==
  /\ ~crashed
  /\ Cardinality(Leaves) = LayoutWindows
  /\ reg[reg[master_region].childs[2]].childs[1] # 0

(***************************************************************************)
(* C11: copy or cut in a pane whose mark is not valid sets error_present   *)
(* and changes neither the file, the clipboard nor the cursor.             *)
(***************************************************************************)
C11_UnmarkedCopyCutRefused ==
  [][\A keycode \in {UserKeyCopy, UserKeyCut} :
       Pressed(keycode) /\ ~win[focused_window].mark_valid
         => /\ win'[focused_window].error_present
            /\ files' = files
            /\ clipboard' = clipboard
            /\ win'[focused_window].cursor_x = win[focused_window].cursor_x
            /\ win'[focused_window].cursor_y = win[focused_window].cursor_y]_vars

\* The keys that enter a split command: the command key, "split", the
\* orientation byte, Enter.
SplitKeys(vertical) ==
  <<UserKeyCommand>> \o StrSplit \o <<IF vertical THEN CharMinus ELSE CharBar>>
    \o <<KeyCodeEnter>>

\* The rectangle of region r cannot hold two children of the minimum size.
TooSmallToSplit(r, vertical) ==
  IF vertical THEN reg[r].height < 2 * WindowMinimumHeight
  ELSE reg[r].width < 2 * WindowMinimumWidth + 1

(***************************************************************************)
(* C12: a split command in a pane whose rectangle cannot hold two children *)
(* of the minimum size is refused: the region tree and the pane list are   *)
(* unchanged and error_present is set on the pane.                         *)
(***************************************************************************)
C12_SmallSplitRefused ==
  ~crashed /\ ~win[focused_window].minibar_active =>
    \A vertical \in BOOLEAN :
      TooSmallToSplit(win[focused_window].region, vertical) =>
        LET T == TypeKeys(State, SplitKeys(vertical), NoEnv)
        IN /\ T.reg = reg
           /\ T.windows = windows
           /\ T.win[focused_window].error_present

(***************************************************************************)
(* C13: a split command in pane W of leaf region R makes R an internal     *)
(* node whose first child is a leaf owning W and whose second child is a   *)
(* leaf owning a new pane without a file; R is stacked for "split-" and    *)
(* not for "split|"; there is one pane more and W is still focused.        *)
(***************************************************************************)
C13_SplitMakesTwoLeaves ==
  ~crashed /\ ~win[focused_window].minibar_active =>
    \A vertical \in BOOLEAN :
      LET W == focused_window
          R == win[W].region
          T == TypeKeys(State, SplitKeys(vertical), NoEnv)
          c0 == T.reg[R].childs[1]
          c1 == T.reg[R].childs[2]
          fresh == (DOMAIN T.win) \ (DOMAIN win)
      IN /\ ~T.crashed
         /\ T.reg[R].window = 0
         /\ {c0, c1} = (DOMAIN T.reg) \ (DOMAIN reg) /\ c0 # c1
         /\ T.reg[c0].childs = <<0, 0>> /\ T.reg[c0].window = W
         /\ T.reg[c0].parent = R /\ T.win[W].region = c0
         /\ Cardinality(fresh) = 1
         /\ \A N \in fresh :
              /\ T.reg[c1].window = N /\ T.win[N].region = c1
              /\ T.win[N].file = 0
         /\ T.reg[c1].childs = <<0, 0>> /\ T.reg[c1].parent = R
         /\ T.reg[R].stacked = vertical
         /\ Len(T.windows) = Len(windows) + 1
         /\ DOMAIN T.win = DOMAIN win \cup fresh
         /\ T.focused_window = W
         /\ \A r \in (DOMAIN reg) \ {R} :
              T.reg[r].childs = reg[r].childs /\ T.reg[r].window = reg[r].window

\* A pane of a file was split in two stacked leaves and is still focused.
C13_Witness ==
  /\ ~crashed
  /\ win[focused_window].previous_keycode = KeyCodeEnter
  /\ win[focused_window].file # 0
  /\ LET P == reg[win[focused_window].region].parent
     IN /\ P # 0
        /\ reg[P].stacked
        /\ reg[P].childs[1] = win[focused_window].region
        /\ reg[reg[P].childs[2]].window # 0
        /\ win[reg[reg[P].childs[2]].window].file = 0
        /\ win[reg[reg[P].childs[2]].window].previous_keycode = 0

\* The panes of the leaves of region tree R, from the leftmost leaf on.
LeafWindows(R) ==
  LET count == Cardinality({ r \in DOMAIN R : R[r].childs[1] = 0 })
      walk == Walk(R, recurse_left(R, master_region), count)
  IN [i \in 1..count |-> R[walk[i]].window]

Without(sequence, item) == SelectSeq(sequence, LAMBDA x : x # item)

(***************************************************************************)
(* C14: remove_window of the pane W of a leaf with parent P and sibling S  *)
(* makes P take over S's pane or S's two children; there is one leaf less, *)
(* the other panes keep their left-to-right order, and the focused pane is *)
(* one of them.                                                            *)
(***************************************************************************)
C14_CloseKeepsOtherLeaves ==
  ~crashed /\ reg[win[focused_window].region].parent # 0 =>
    LET W == focused_window
        own == win[W].region
        P == reg[own].parent
        S == IF reg[P].childs[1] = own THEN reg[P].childs[2] ELSE reg[P].childs[1]
        T == remove_window(State, W)
    IN /\ ~T.crashed
       /\ T.reg[P].window = reg[S].window
       /\ T.reg[P].childs = reg[S].childs
       /\ \A c \in {reg[S].childs[1], reg[S].childs[2]} \ {0} : T.reg[c].parent = P
       /\ DOMAIN T.reg = (DOMAIN reg) \ {own, S}
       /\ LeafWindows(T.reg) = Without(LeafWindows(reg), W)
       /\ Len(LeafWindows(T.reg)) = Len(LeafWindows(reg)) - 1
       /\ DOMAIN T.win = (DOMAIN win) \ {W}
       /\ T.windows = Without(windows, W)
       /\ T.focused_window \in DOMAIN T.win
       /\ \A w \in DOMAIN T.win : T.reg[T.win[w].region].window = w

\* Both panes of the file were closed: the pane a split made is the only one.
C14_Witness ==
  /\ ~crashed
  /\ Cardinality(DOMAIN win) = 1
  /\ reg[master_region].window = focused_window
  /\ win[focused_window].file = 0

\* The region tree and the panes of T are those of the current state: the
\* same regions with the same links, panes and rectangles, and the same split
\* ratio and orientation at every internal node.
SameTree(T) ==
  /\ ~T.crashed
  /\ DOMAIN T.reg = DOMAIN reg
  /\ \A r \in DOMAIN reg :
       /\ T.reg[r].parent = reg[r].parent
       /\ T.reg[r].childs = reg[r].childs
       /\ T.reg[r].window = reg[r].window
       /\ T.reg[r].x = reg[r].x /\ T.reg[r].y = reg[r].y
       /\ T.reg[r].width = reg[r].width /\ T.reg[r].height = reg[r].height
       /\ reg[r].childs[1] # 0 =>
            T.reg[r].split = reg[r].split /\ T.reg[r].stacked = reg[r].stacked
  /\ T.windows = windows
  /\ DOMAIN T.win = DOMAIN win
  /\ \A w \in DOMAIN win : T.win[w].region = win[w].region

\* The pane that T has and S has not.
FreshWindow(S, T) == CHOOSE w \in DOMAIN T.win : w \notin DOMAIN S.win

\* The focus is moved to the pane and the pane is closed.
CloseWindow(S, window) == remove_window([S EXCEPT !.focused_window = window], window)

(***************************************************************************)
(* C15: from every region tree, two successive splits (of the focused pane *)
(* and then of it or of the pane the first split made, each stacked or     *)
(* side by side) followed by closing the two panes the splits made, in     *)
(* either order, give back the original tree.                              *)
(***************************************************************************)
C15_SplitsThenClosesRestore ==
  ~crashed =>
    \A first \in BOOLEAN :
      \A Tree1 \in {split_window(State, focused_window, first)} :
      \A N1 \in {FreshWindow(State, Tree1)} :
      \A second \in BOOLEAN, other \in BOOLEAN :
      \A Tree2 \in {split_window(Tree1, IF other THEN N1 ELSE focused_window, second)} :
      \A N2 \in {FreshWindow(Tree1, Tree2)} :
      \A swap \in BOOLEAN :
      \A Tree3 \in {CloseWindow(Tree2, IF swap THEN N1 ELSE N2)} :
      \A Tree4 \in {CloseWindow(Tree3, IF swap THEN N2 ELSE N1)} :
        SameTree(Tree4)

\* The focused pane was split twice: it is the first leaf under two new
\* internal nodes and the two panes beside it were never focused.
C15_Witness ==
  /\ ~crashed
  /\ Cardinality(DOMAIN win) = LayoutWindows
  /\ win[focused_window].previous_keycode = KeyCodeEnter
  /\ LET inner == reg[win[focused_window].region].parent
         outer == IF inner = 0 THEN 0 ELSE reg[inner].parent
     IN /\ inner # 0 /\ outer # 0
        /\ reg[inner].childs[1] = win[focused_window].region
        /\ reg[outer].childs[1] = inner
        /\ \A r \in {reg[inner].childs[2], reg[outer].childs[2]} :
             /\ reg[r].window # 0
             /\ win[reg[r].window].file = 0
             /\ win[reg[r].window].previous_keycode = 0

\* No byte of the content is '\r'.
LFOnly(data) == \A i \in 1..Len(data) : data[i] # CharReturn

\* Some '\r' of the content is not immediately followed by '\n'.
HasStrayReturn(data) ==
  \E i \in 1..Len(data) :
    data[i] = CharReturn /\ (i = Len(data) \/ data[i + 1] # CharNewline)

\* The dispatch is the Enter that commits open mode in the focused pane.
CommitsOpen ==
  /\ ~crashed /\ ~crashed'
  /\ win[focused_window].minibar_active
  /\ win[focused_window].minibar_mode = MinibarModeOpen
  /\ win'[focused_window].previous_keycode = KeyCodeEnter
  /\ ~win'[focused_window].minibar_active

(***************************************************************************)
(* C16: an open file whose lines are those open_file builds from the       *)
(* LF-only bytes that its path holds on disk is saved, and open_file       *)
(* builds the same lines again from the bytes that save_file wrote.        *)
(***************************************************************************)
C16_OpenSaveOpenSameLines ==
  ~crashed =>
    \A f \in 1..Len(files) :
      \A path \in {files[f].path} :
        ( /\ path \in DOMAIN disk
          /\ LFOnly(disk[path])
          /\ files[f].lines = load_file(path, disk[path]).lines )
        => \A saved \in {save_file(State, f)} :
             /\ saved.ok
             /\ open_file_check(saved.S.disk[path], 0, 0)
             /\ load_file(path, saved.S.disk[path]).lines = files[f].lines

(***************************************************************************)
(* C17: committing open mode with the path of a file on disk that is not   *)
(* open and whose content has a '\r' not immediately followed by '\n'      *)
(* adds no file, leaves the pane's file and view as they were and sets     *)
(* error_present.                                                          *)
(***************************************************************************)
C17_StrayReturnRefused ==
  [][ \A path \in {win[focused_window].minibar_data} :
        ( /\ CommitsOpen
          /\ try_open_existing_file(State, path) = 0
          /\ path \in DOMAIN disk
          /\ HasStrayReturn(disk[path]) )
        => /\ files' = files
           /\ win'[focused_window].file = win[focused_window].file
           /\ win'[focused_window].cursor_x = win[focused_window].cursor_x
           /\ win'[focused_window].cursor_y = win[focused_window].cursor_y
           /\ win'[focused_window].offset_x = win[focused_window].offset_x
           /\ win'[focused_window].offset_y = win[focused_window].offset_y
           /\ win'[focused_window].error_present ]_vars

(***************************************************************************)
(* C18: committing open mode with path p either reports an error or loads  *)
(* a file or leaves the pane on a file whose path is p: an open file whose *)
(* path p only begins, or the empty p, is not what the pane shows.         *)
(***************************************************************************)
C18_OpenResolvesExactPath ==
  [][ \A path \in {win[focused_window].minibar_data} :
        ( /\ CommitsOpen
          /\ ~win'[focused_window].error_present )
        => /\ win'[focused_window].file # 0
           /\ files'[win'[focused_window].file].path = path ]_vars

\* Strings outside the command grammar: "closex", "splitx -" and "x".
UnknownCommands ==
  {StrClose \o <<120>>, StrSplit \o <<120, CharSpace, CharMinus>>, <<120>>}

(***************************************************************************)
(* C19: handle_command on a string outside the grammar, typed into the     *)
(* minibar of the focused pane, sets error_present and leaves the region   *)
(* tree, the pane list, the focus and the theme as they were.              *)
(***************************************************************************)
C19_UnknownCommandRefused ==
  (~crashed /\ ~win[focused_window].minibar_active) =>
    \A command \in UnknownCommands :
      \A typed \in {TypeKeys(State, <<UserKeyCommand>> \o command, NoEnv)} :
        \A T \in {handle_command(typed, focused_window)} :
          /\ T.reg = reg
          /\ T.windows = windows
          /\ T.focused_window = focused_window
          /\ T.current_theme = current_theme
          /\ focused_window \in DOMAIN T.win
          /\ T.win[focused_window].error_present

(***************************************************************************)
(* C20: Enter at cursor (x, y) on a line that does not end in '{' leaves   *)
(* the first x bytes on line y, makes line y+1 of indent spaces and the    *)
(* rest of the line, indent being the leading spaces of the line before    *)
(* the key, and puts the cursor at (indent, y+1).                          *)
(***************************************************************************)
C20_EnterKeepsIndent ==
  [][ \A W \in {win[focused_window]} :
        ( /\ Pressed(KeyCodeEnter)
          /\ W.file # 0
          /\ CursorInFile(W, State)
          /\ get_last_char(LineAt(files[W.file], W.cursor_y)) # CharOpenBrace )
        => \A line \in {LineAt(files[W.file], W.cursor_y)} :
           \A indent \in {get_leading_spaces(line)} :
             /\ Len(files'[W.file].lines) = Len(files[W.file].lines) + 1
             /\ LineAt(files'[W.file], W.cursor_y).chars = SubSeq(line.chars, 1, W.cursor_x)
             /\ LineAt(files'[W.file], W.cursor_y + 1).chars =
                  Spaces(indent) \o SubSeq(line.chars, W.cursor_x + 1, Len(line.chars))
             /\ win'[focused_window].cursor_x = indent
             /\ win'[focused_window].cursor_y = W.cursor_y + 1 ]_vars

\* The pattern P is at column x (0-based) of line y of the file.
Occurs(file, P, x, y) ==
  /\ 0 <= y /\ y < Len(file.lines)
  /\ 0 <= x /\ x + Len(P) <= Len(LineAt(file, y).chars)
  /\ SubSeq(LineAt(file, y).chars, x + 1, x + Len(P)) = P

\* The pane is in find mode with a non-empty pattern.
Finding(W) ==
  /\ W.file # 0
  /\ W.minibar_active
  /\ W.minibar_mode = MinibarModeFind
  /\ W.minibar_data # <<>>

(***************************************************************************)
(* C5: in a pane in find mode with a non-empty pattern every entry of      *)
(* matches is a place where the pattern stands in the file, and the list   *)
(* is ordered by line and, within a line, by strictly ascending column.    *)
(***************************************************************************)
C5_MatchesAreOccurrences ==
  ~crashed =>
    \A w \in DOMAIN win :
      Finding(win[w]) =>
        \A i \in 1..Len(win[w].matches) :
          /\ Occurs(files[win[w].file], win[w].minibar_data,
                    win[w].matches[i].x, win[w].matches[i].y)
          /\ \A j \in 1..(i - 1) :
               \/ win[w].matches[j].y < win[w].matches[i].y
               \/ /\ win[w].matches[j].y = win[w].matches[i].y
                  /\ win[w].matches[j].x < win[w].matches[i].x

\* A scan of a two-byte pattern that found matches on both lines, two of
\* them on one line.
C5_Witness ==
  /\ ~crashed
  /\ Finding(win[focused_window])
  /\ Len(win[focused_window].minibar_data) = FindPattern
  /\ \E i, j \in 1..Len(win[focused_window].matches) :
       /\ i < j
       /\ win[focused_window].matches[i].y = win[focused_window].matches[j].y
  /\ \E i, j \in 1..Len(win[focused_window].matches) :
       win[focused_window].matches[i].y # win[focused_window].matches[j].y

(***************************************************************************)
(* C6: in a pane in find mode with a non-empty pattern, a scan that is not *)
(* interrupted leaves in matches every place of the file where the pattern *)
(* stands.                                                                 *)
(***************************************************************************)
C6_EveryOccurrenceFound ==
  (~crashed /\ Finding(win[focused_window])) =>
    \A T \in {find_in_file(State, focused_window, NoEnv)} :
      \A W \in {win[focused_window]} :
        \A y \in 0..(Len(files[W.file].lines) - 1) :
          \A x \in 0..Len(LineAt(files[W.file], y).chars) :
            Occurs(files[W.file], W.minibar_data, x, y)
              => \E i \in 1..Len(T.win[focused_window].matches) :
                   T.win[focused_window].matches[i] = [x |-> x, y |-> y]

\* The pane can take Enter: it shows a file, the minibar is closed and the
\* cursor is on a line of the file.
CanType(S) ==
  /\ ~S.crashed
  /\ ~S.win[S.focused_window].minibar_active
  /\ S.win[S.focused_window].file # 0
  /\ CursorInFile(S.win[S.focused_window], S)

\* What Enter does in state S, on a line whose part before the cursor ends
\* in '{', when the key before it was `before`: the part stays on line y,
\* line y+1 is indent + 2 spaces and the rest of the line, the cursor is at
\* (indent + 2, y+1); after '{' the next line is indent spaces and '}', after
\* any other key no further line is inserted.
BraceEnterAsClaimed(S, before) ==
  LET w == S.focused_window
      W == S.win[w]
      old == S.files[W.file].lines
      y == W.cursor_y
      chars == LineAt(S.files[W.file], y).chars
      head == SubSeq(chars, 1, W.cursor_x)
      tail == SubSeq(chars, W.cursor_x + 1, Len(chars))
      indent == get_leading_spaces([chars |-> chars])
      closes == IF before = CharOpenBrace THEN 1 ELSE 0
  IN \A T \in {update(S, KeyCodeEnter, NoEnv)} :
       /\ ~T.crashed
       /\ T.focused_window = w
       /\ T.win[w].cursor_x = indent + EditorSpacesPerTab
       /\ T.win[w].cursor_y = y + 1
       /\ Len(T.files[W.file].lines) = Len(old) + 1 + closes
       /\ \A i \in 1..y : T.files[W.file].lines[i].chars = old[i].chars
       /\ T.files[W.file].lines[y + 1].chars = head
       /\ T.files[W.file].lines[y + 2].chars = Spaces(indent + EditorSpacesPerTab) \o tail
       /\ closes = 1 =>
            T.files[W.file].lines[y + 3].chars = Spaces(indent) \o <<CharCloseBrace>>
       /\ \A i \in (y + 2)..Len(old) :
            T.files[W.file].lines[i + 1 + closes].chars = old[i].chars

(***************************************************************************)
(* C21: whatever key is dispatched, if Enter follows it on a line whose    *)
(* part before the cursor ends in '{', the cursor goes to a new line       *)
(* indented by indent + 2, and a closing line of indent spaces and '}' is  *)
(* inserted after it exactly when that key was '{'.                        *)
(***************************************************************************)
C21_EnterAfterBrace ==
  ~crashed =>
    \A before \in BraceKeys :
      \A T \in {update(State, before, NoEnv)} :
        ( /\ CanType(T)
          /\ T.win[T.focused_window].cursor_x > 0
          /\ LineAt(T.files[T.win[T.focused_window].file],
                    T.win[T.focused_window].cursor_y).chars[T.win[T.focused_window].cursor_x]
               = CharOpenBrace )
        => BraceEnterAsClaimed(T, before)

\* Enter was pressed right after '{' at the end of an unindented line: the
\* cursor stands on the new line between the brace and its closing line.
C21_Witness ==
  /\ CanType(State)
  /\ win[focused_window].previous_keycode = KeyCodeEnter
  /\ win[focused_window].cursor_y = 1
  /\ win[focused_window].cursor_x = EditorSpacesPerTab
  /\ Len(files[win[focused_window].file].lines) = 3
  /\ files[win[focused_window].file].lines[1].chars = <<CharOpenBrace>>
  /\ files[win[focused_window].file].lines[2].chars = Spaces(EditorSpacesPerTab)
  /\ files[win[focused_window].file].lines[3].chars = <<CharCloseBrace>>

(***************************************************************************)
(* C22: Delete or ctrl-delete dispatched with the cursor at (0, 0) leaves  *)
(* the file (its lines and its saved flag), the cursor and the mark of the *)
(* pane as they were.                                                      *)
(***************************************************************************)
C22_DeleteAtOriginNoOp ==
  [][ \A W \in {win[focused_window]} :
        ( /\ Pressed(KeyCodeDelete) \/ Pressed(KeyCodeCtrlDelete)
          /\ W.file # 0
          /\ W.cursor_x = 0 /\ W.cursor_y = 0 )
        => /\ files'[W.file].lines = files[W.file].lines
           /\ files'[W.file].saved = files[W.file].saved
           /\ win'[focused_window].cursor_x = 0
           /\ win'[focused_window].cursor_y = 0
           /\ win'[focused_window].mark_valid = W.mark_valid
           /\ win'[focused_window].mark_x = W.mark_x
           /\ win'[focused_window].mark_y = W.mark_y ]_vars

\* The classes of bytes: space, identifier byte, other.
ByteClass(c) == IF c = CharSpace THEN 0 ELSE IF is_indentifier_literal(c) THEN 1 ELSE 2

\* The length of the maximal run of bytes of one class that ends at column x.
RECURSIVE RunBefore(_, _)
RunBefore(chars, x) ==
  IF x <= 1 THEN x
  ELSE IF ByteClass(chars[x - 1]) = ByteClass(chars[x]) THEN 1 + RunBefore(chars, x - 1)
  ELSE 1

\* The key removed the `count` bytes before the cursor and nothing else.
Removed(count) ==
  LET W == win[focused_window]
      chars == LineAt(files[W.file], W.cursor_y).chars
  IN /\ Len(files'[W.file].lines) = Len(files[W.file].lines)
     /\ LineAt(files'[W.file], W.cursor_y).chars =
          SubSeq(chars, 1, W.cursor_x - count) \o SubSeq(chars, W.cursor_x + 1, Len(chars))
     /\ win'[focused_window].cursor_x = W.cursor_x - count
     /\ win'[focused_window].cursor_y = W.cursor_y

(***************************************************************************)
(* C23: ctrl-delete with cursor_x > 0 removes exactly the maximal run of   *)
(* bytes of one class (space, identifier byte, other) that ends at the     *)
(* cursor.                                                                 *)
(***************************************************************************)
C23_CtrlDeleteRemovesRun ==
  [][ \A W \in {win[focused_window]} :
        ( /\ Pressed(KeyCodeCtrlDelete)
          /\ W.file # 0
          /\ CursorInFile(W, State)
          /\ W.cursor_x > 0 )
        => Removed(RunBefore(LineAt(files[W.file], W.cursor_y).chars, W.cursor_x)) ]_vars

(***************************************************************************)
(* C24: plain delete with cursor_x > 0 removes 2 bytes when everything     *)
(* before the cursor is spaces and their count is even, and 1 byte in      *)
(* every other case.                                                       *)
(***************************************************************************)
C24_DeleteRemovesTabOrOne ==
  [][ \A W \in {win[focused_window]} :
        ( /\ Pressed(KeyCodeDelete)
          /\ W.file # 0
          /\ CursorInFile(W, State)
          /\ W.cursor_x > 0 )
        => Removed(IF /\ get_leading_spaces(LineAt(files[W.file], W.cursor_y)) >= W.cursor_x
                      /\ W.cursor_x % EditorSpacesPerTab = 0
                   THEN EditorSpacesPerTab ELSE 1) ]_vars
\* What change_file keeps per file of a pane and the claim names.
PaneView(W) ==
  [cursor_x |-> W.cursor_x, cursor_y |-> W.cursor_y, cursor_x_ideal |-> W.cursor_x_ideal,
   offset_x |-> W.offset_x, offset_y |-> W.offset_y,
   mark_x |-> W.mark_x, mark_y |-> W.mark_y, mark_valid |-> W.mark_valid]

\* Open mode committed with a whole path.
SwitchTo(S, path) == TypeKeys(S, <<UserKeyOpen>> \o path \o <<KeyCodeEnter>>, NoEnv)

\* The states after at most one key of SwitchKeys.
AfterOneKey(S) == {S} \cup { update(S, keycode, NoEnv) : keycode \in SwitchKeys }

(***************************************************************************)
(* C25: switching the focused pane from its file A to the other file B     *)
(* and back, with no edit of A in between, restores cursor_x, cursor_y,    *)
(* cursor_x_ideal, offset_x, offset_y and the mark the pane had on A; and  *)
(* a switch to a file the pane never showed puts all of them to zero and   *)
(* the mark to invalid.                                                    *)
(***************************************************************************)
C25_SwitchRestoresView ==
  \A away \in SwitchPaths :
    LET pane == focused_window
        here == files[win[pane].file].path
    IN (~crashed /\ ~win[pane].minibar_active /\ away # here) =>
         \A Away \in {SwitchTo(State, away)} :
           /\ ~Away.crashed
           /\ Away.files[Away.win[pane].file].path = away
           /\ get_file_state(win[pane], Away.win[pane].file) = 0 =>
                PaneView(Away.win[pane]) = PaneView(NewWindow)
           /\ \A Moved \in AfterOneKey(Away) :
                \A Back \in {SwitchTo(Moved, here)} :
                  /\ ~Back.crashed
                  /\ Back.win[pane].file = win[pane].file
                  /\ PaneView(Back.win[pane]) = PaneView(win[pane])

\* The pane is back on t.c after it showed "a"; its cursor is off the origin
\* and its mark is set, as they were when it left t.c.
C25_Witness ==
  /\ ~crashed
  /\ files[win[focused_window].file].path = StrTC
  /\ Len(win[focused_window].file_states) = 2
  /\ win[focused_window].previous_keycode = KeyCodeEnter
  /\ win[focused_window].cursor_x = 2
  /\ win[focused_window].mark_valid
  /\ win[focused_window].mark_x = 1

\* The keys that open the open, new and command prompts.
PromptOpeners == {UserKeyOpen, UserKeyNew, UserKeyCommand}

\* The states after at most one key typed into the prompt.
AfterTyping(S) ==
  {S} \cup { update(S, keycode, NoEnv) : keycode \in PromptTyped \ {KeyCodeEscape} }

(***************************************************************************)
(* C27: a prompt of mode open, new or command that is opened outside the   *)
(* minibar and left with Escape only cancels: the minibar is inactive and  *)
(* its input empty, and the pane shows the same file with the same         *)
(* cursor_x, cursor_y, offset_x and offset_y as before the prompt opened.  *)
(***************************************************************************)
C27_EscapeOnlyCancels ==
  \A opener \in PromptOpeners :
    LET pane == focused_window
    IN (~crashed /\ ~win[pane].minibar_active) =>
         \A Opened \in {update(State, opener, NoEnv)} :
           \A Typed \in AfterTyping(Opened) :
             \A Closed \in {update(Typed, KeyCodeEscape, NoEnv)} :
               /\ ~Closed.crashed
               /\ ~Closed.win[pane].minibar_active
               /\ Closed.win[pane].minibar_data = <<>>
               /\ Closed.win[pane].file = win[pane].file
               /\ Closed.win[pane].cursor_x = win[pane].cursor_x
               /\ Closed.win[pane].cursor_y = win[pane].cursor_y
               /\ Closed.win[pane].offset_x = win[pane].offset_x
               /\ Closed.win[pane].offset_y = win[pane].offset_y

InputPending == [NoEnv EXCEPT !.pending = TRUE]

(***************************************************************************)
(* C28: a find scan during which input becomes pending stops and leaves    *)
(* the match list empty when find_in_file returns; and in every state that *)
(* is rendered the match list of every pane is empty or is the result of a *)
(* whole scan of the pane's file for the pattern now in its minibar.       *)
(***************************************************************************)
C28_MatchesEmptyOrWholeScan ==
  ~crashed =>
    \A w \in DOMAIN win :
      /\ Finding(win[w]) =>
           \A T \in {find_in_file(State, w, InputPending)} :
             /\ ~T.crashed
             /\ T.win[w].matches = <<>>
             /\ T.win[w].cursor_x = win[w].cursor_x
             /\ T.win[w].cursor_y = win[w].cursor_y
      /\ \/ win[w].matches = <<>>
         \/ /\ Finding(win[w])
            /\ win[w].matches = find_lines(win[w].minibar_data, files[win[w].file], 0)

\* A scan was interrupted: the pattern occurs in the file and the match list
\* is empty.
C28_Witness ==
  /\ ~crashed
  /\ Finding(win[focused_window])
  /\ Len(win[focused_window].minibar_data) = SeekPattern
  /\ find_lines(win[focused_window].minibar_data, files[win[focused_window].file], 0) # <<>>
  /\ win[focused_window].matches = <<>>

(***************************************************************************)
(* C30: whenever the focused pane shows an error (error_present) and is    *)
(* not in minibar mode, Escape dispatched to it clears error_present, in a *)
(* pane that has a file and in a pane that has none.                       *)
(***************************************************************************)
C30_EscapeClearsError ==
  \A pane \in {focused_window} :
    (~crashed /\ win[pane].error_present /\ ~win[pane].minibar_active) =>
      \A T \in {update(State, KeyCodeEscape, NoEnv)} :
        /\ ~T.crashed
        /\ ~T.win[pane].error_present

\* The escape sequences the decoder is said to know: ESC [ A/B/C/D/H/K,
\* ESC [ 4 ~, ESC [ 2 J, ESC [ 1 ; 2 A..D and ESC [ 1 ; 5 A..D.
ListedReads ==
  { <<27, 91, f>> : f \in {65, 66, 67, 68, 72, 75} }
    \cup {<<27, 91, 52, 126>>, <<27, 91, 50, 74>>}
    \cup { <<27, 91, 49, 59, m, f>> : m \in {50, 53}, f \in {65, 66, 67, 68} }

(***************************************************************************)
(* C29: a read that is ESC alone, or that starts with ESC and is not one   *)
(* of the listed sequences, decodes to KeyCodeNone: update() dispatches    *)
(* nothing for it and the editor's state stays as it is; in particular     *)
(* ESC [ and an unlisted final byte is not taken for Escape.               *)
(***************************************************************************)
C29_UnlistedEscapeIsNoKey ==
  ~crashed =>
    \A keys \in EscapeReads \ ListedReads :
      /\ get_input(keys) = KeyCodeNone
      /\ update_read(State, keys, NoEnv) = State

\* The shift the claim gives for entry i of pattern P (positions 0-based):
\* the smallest i - j with P[j .. j+(m-i)) = P[i .. m) and (j = 0 or
\* P[j-1] # P[i-1]); 1 when there is no such j.
GoodSuffix(P, i) ==
  LET m == Len(P)
      starts == { j \in 0..(i - 1) :
                    /\ SubSeq(P, j + 1, j + m - i) = SubSeq(P, i + 1, m)
                    /\ (j = 0 \/ P[j] # P[i]) }
  IN IF starts = {} THEN 1
     ELSE i - (CHOOSE j \in starts : \A k \in starts : k <= j)

(***************************************************************************)
(* C31: for the pattern P of a pane in find mode, of length m, and every   *)
(* 1 <= i < m, the entry find_index_lookup[i] built by make_find_lookup is *)
(* the smallest positive distance i - j such that P[j .. j+(m-i)) equals   *)
(* P[i .. m) and (j = 0 or P[j-1] # P[i-1]), and is 1 when there is no     *)
(* such j.                                                                 *)
(***************************************************************************)
C31_TableIsGoodSuffix ==
  \A w \in DOMAIN win :
    (~crashed /\ Finding(win[w])) =>
      \A i \in 1..(Len(win[w].minibar_data) - 1) :
        find_index_lookup(win[w].minibar_data, i) = GoodSuffix(win[w].minibar_data, i)

\* The region tree after the split of `parent` moved by amount / total and
\* the children of parent were laid out again.
SplitMovedBy(parent, amount, total) ==
  resize_child_regions(
    [State EXCEPT !.reg[parent].split = F32Add(@, F32Div(amount, total))], parent).reg

(***************************************************************************)
(* C32: ctrl-up and ctrl-down resize the focused pane by d = 1 and d = -1: *)
(* the split of the pane's parent moves by d / parent.height when the      *)
(* parent is stacked and by 2d / parent.width when it is side by side,     *)
(* whatever the stacked flag of the pane's own leaf region is; the parent  *)
(* then lays its children out again.                                       *)
(***************************************************************************)
C32_ResizeFollowsParent ==
  \A d \in {1, -1} :
    LET pane == focused_window
        region == win[pane].region
        parent == reg[region].parent
    IN (~crashed /\ ~win[pane].minibar_active /\ win[pane].file # 0 /\ parent # 0) =>
         \A T \in {update(State, IF d = 1 THEN KeyCodeCtrlUp ELSE KeyCodeCtrlDown, NoEnv)} :
           ~T.crashed =>
             T.reg = IF reg[parent].stacked
                     THEN SplitMovedBy(parent, d, reg[parent].height)
                     ELSE SplitMovedBy(parent, 2 * d, reg[parent].width)

(***************************************************************************)
(* C33: on the leaves of the region tree get_previous_region is the        *)
(* inverse of get_next_region: previous(next(L)) = L and                   *)
(* next(previous(L)) = L for every leaf L; and so focus-next followed by   *)
(* focus-previous, or the other way round, returns the focus to the pane   *)
(* it came from.                                                           *)
(***************************************************************************)
C33_PreviousInvertsNext ==
  ~crashed =>
    /\ \A L \in Leaves :
         /\ get_previous_region(reg, get_next_region(reg, L)) = L
         /\ get_next_region(reg, get_previous_region(reg, L)) = L
    /\ ~win[focused_window].minibar_active =>
         /\ TypeKeys(State, <<UserKeyFocusNext, UserKeyFocusPrevious>>, NoEnv).focused_window
              = focused_window
         /\ TypeKeys(State, <<UserKeyFocusPrevious, UserKeyFocusNext>>, NoEnv).focused_window
              = focused_window

\* Three leaves; the focused pane is the last leaf, a child of an internal
\* node under the root, so that next wraps round to the first leaf.
C33_Witness ==
  /\ ~crashed
  /\ Cardinality(Leaves) = LayoutWindows
  /\ reg[win[focused_window].region].parent # master_region
  /\ win[focused_window].region = recurse_right(reg, master_region)
  /\ get_next_region(reg, win[focused_window].region) = recurse_left(reg, master_region)
  /\ get_previous_region(reg, recurse_left(reg, master_region)) = win[focused_window].region

(***************************************************************************)
(* C34: in every state of a pane whose match list is not empty,            *)
(* 0 <= match_index < |matches|: the match the cursor is moved to is an    *)
(* entry of the current list, also after a scan all of whose matches lie   *)
(* on lines before the line where find mode was entered.                   *)
(***************************************************************************)
C34_MatchIndexInList ==
  ~crashed =>
    \A w \in DOMAIN win :
      win[w].matches # <<>> =>
        /\ 0 <= win[w].match_index
        /\ win[w].match_index < Len(win[w].matches)

(***************************************************************************)
(* C35: whenever the mark of a pane that has a file is valid, the mark is  *)
(* a position inside that file: 0 <= mark_y < |lines| and                  *)
(* 0 <= mark_x <= |lines[mark_y].chars|.                                   *)
(***************************************************************************)
C35_ValidMarkInFile ==
  ~crashed =>
    \A w \in DOMAIN win :
      (win[w].file # 0 /\ win[w].mark_valid) => MarkInFile(win[w], State)

\* An access whose outcome is undefined stops the process.
AccessFaults == [NoEnv EXCEPT !.crash = TRUE]

(***************************************************************************)
(* C36: once close (ctrl-left or the command "close") has released the     *)
(* focused pane, no later step of the same dispatch reads or writes that   *)
(* pane: the dispatch makes no access to a released object, so it          *)
(* completes also when every such access stops the process.                *)
(***************************************************************************)
C36_NoAccessAfterRelease ==
  (~crashed /\ ~win[focused_window].minibar_active /\ win[focused_window].file # 0) =>
    /\ ~update(State, KeyCodeCtrlLeft, AccessFaults).crashed
    /\ ~TypeKeys(State, <<UserKeyCommand>> \o StrClose \o <<KeyCodeEnter>>,
                 AccessFaults).crashed

\* Region r is a leaf: no children, and a pane that points back to it.
IsLeaf(r) ==
  /\ reg[r].childs = <<0, 0>>
  /\ reg[r].window \in DOMAIN win
  /\ win[reg[r].window].region = r

\* Region r is an internal node: two children whose parent it is, no pane.
IsInternal(r) ==
  /\ reg[r].window = 0
  /\ reg[r].childs[1] \in DOMAIN reg
  /\ reg[r].childs[2] \in DOMAIN reg
  /\ reg[r].childs[1] # reg[r].childs[2]
  /\ reg[reg[r].childs[1]].parent = r
  /\ reg[reg[r].childs[2]].parent = r

(***************************************************************************)
(* C37: after any sequence of split, close and swap every region is a leaf *)
(* with a pane and no children or an internal node with two children and   *)
(* no pane; every child's parent pointer is its parent and every region    *)
(* but the root is a child of its parent; each leaf's pane points back to  *)
(* the leaf; and the windows list holds exactly the panes of the leaves,   *)
(* each once.                                                              *)
(***************************************************************************)
C37_TreeAndPanesConsistent ==
  ~crashed =>
    /\ reg[master_region].parent = 0
    /\ \A r \in DOMAIN reg :
         /\ IsLeaf(r) \/ IsInternal(r)
         /\ r # master_region =>
              /\ reg[r].parent \in DOMAIN reg
              /\ r \in {reg[reg[r].parent].childs[1], reg[reg[r].parent].childs[2]}
    /\ { windows[i] : i \in 1..Len(windows) } = { reg[r].window : r \in Leaves }
    /\ Len(windows) = Cardinality(Leaves)
    /\ DOMAIN win = { windows[i] : i \in 1..Len(windows) }

\* Three leaves, the left child of the root an internal node, reached by a
\* swap in the focused pane.
C37_Witness ==
  /\ ~crashed
  /\ Cardinality(Leaves) = LayoutWindows
  /\ reg[reg[master_region].childs[1]].childs[1] # 0
  /\ win[focused_window].previous_keycode = KeyCodeCtrlRight

(***************************************************************************)
(* C38: in every state there is at least one pane and the focused pane is  *)
(* the pane of a leaf of the region tree; no pane but the focused one has  *)
(* its minibar active; and closing the only pane (the pane of the root)    *)
(* changes nothing: remove_window returns the state as it is, and ctrl-left*)
(* dispatched to it is only recorded as the pane's previous keycode.       *)
(***************************************************************************)
C38_FocusOnLeafPane ==
  ~crashed =>
    /\ Len(windows) >= 1
    /\ focused_window \in DOMAIN win
    /\ win[focused_window].region \in Leaves
    /\ reg[win[focused_window].region].window = focused_window
    /\ \A w \in DOMAIN win : w # focused_window => ~win[w].minibar_active
    /\ reg[master_region].childs[1] = 0 =>
         /\ remove_window(State, focused_window) = State
         /\ ~win[focused_window].minibar_active =>
              update(State, KeyCodeCtrlLeft, AccessFaults) =
                [State EXCEPT !.win[focused_window].previous_keycode = KeyCodeCtrlLeft]

\* One pane is left and ctrl-left has been dispatched to it.
C38_Witness ==
  /\ ~crashed
  /\ Cardinality(DOMAIN win) = 1
  /\ reg[master_region].window = focused_window
  /\ win[focused_window].previous_keycode = KeyCodeCtrlLeft

(***************************************************************************)
(* C39: no two entries of the files list have the same path, after any     *)
(* sequence of commits of open mode and new mode; new mode committed with  *)
(* the path of a loaded file makes no second buffer for that path.         *)
(***************************************************************************)
C39_PathsAreUnique ==
  ~crashed =>
    \A i \in 1..Len(files) : \A j \in 1..Len(files) :
      i # j => files[i].path # files[j].path

\* The keys that move the cursor within its line or to a column of a new
\* line: a character, tab, newline, delete, left and right.
HorizontalKeys ==
  {97, KeyCodeTab, KeyCodeEnter, KeyCodeDelete, KeyCodeCtrlDelete, KeyCodeLeft, KeyCodeRight}

(***************************************************************************)
(* C40: every dispatch of a key that moves the cursor horizontally, typing *)
(* a character, tab and newline included, leaves the pane with             *)
(* cursor_x_ideal equal to cursor_x.                                       *)
(***************************************************************************)
C40_IdealFollowsCursor ==
  [][ \A keycode \in HorizontalKeys :
        ( /\ Pressed(keycode)
          /\ win[focused_window].file # 0
          /\ \/ win'[focused_window].cursor_x # win[focused_window].cursor_x
             \/ win'[focused_window].cursor_y # win[focused_window].cursor_y )
        => win'[focused_window].cursor_x_ideal = win'[focused_window].cursor_x ]_vars

=============================================================================
